---- MODULE Spec2Model ----
(***************************************************************************)
(* Inbound delivery engine of the ClawTell channel plugin: the local retry *)
(* queue (queue.ts), route resolution, the delivery policy filter and the  *)
(* account-level poll loop (poll.ts: pollAccountLoop).                     *)
(***************************************************************************)
EXTENDS Integers, Sequences, FiniteSets, TLC

VARIABLES
    pc,        \* position of pollAccountLoop
    aborted,   \* opts.abortSignal.aborted
    inbox,     \* broker side: ids delivered to the account and not yet acknowledged
    arrived,   \* broker side: ids that have ever been put in the inbox
    queue,     \* contents of inbox-queue.json: [pending, deadLetter]
    queued,    \* pollAccountLoop: const queued = await getPending()
    qi,        \* index of qm in queued (for (const qm of queued))
    messages,  \* pollAccountLoop: const messages = await pollAccountMessages(...)
    mi,        \* index of msg in messages (for (const msg of messages))
    ackedIds,  \* pollAccountLoop: const ackedIds: string[]
    ok,        \* result of the last dispatchToAgent call
    deadLettered, \* result of the last markAttempt call (<<>> is null)
    budget,    \* faults the environment may still inject: [ack, io]
    hist,      \* observations about the run (not read by the program)
    probe,     \* harness for the pure functions and the queue API
    processedIds,        \* pollLegacyLoop: const processedIds = new Set<string>()
    consecutiveFailures, \* sseAccountLoop: let consecutiveFailures = 0
    tmpFile,   \* contents of inbox-queue.json.tmp (<<>>: no such file)
    calls,     \* queue.ts calls in flight, each between two of its awaits
    sse        \* sseAccountLoop: delay, and currentEvent, currentData of the stream
               \* (currentData = <<>> for the empty string)

\* the state outside pollAccountLoop
OtherState == <<processedIds, consecutiveFailures, tmpFile, calls, sse>>

vars == <<pc, aborted, inbox, arrived, queue, queued, qi, messages, mi,
          ackedIds, ok, deadLettered, budget, hist, probe, OtherState>>

-----------------------------------------------------------------------------
(* Bounds of the model *)

\* dispatch failures counted per message before the counter saturates
MaxFails == 11
\* batchAck calls that may fail in one run
MaxAckFail == 1
\* queue file writes that may fail in one run
MaxIoFail == 1

\* dead-letterings the queue harness performs in one run
MaxDeadLetters == 2

(* Program constants *)

MAX_ATTEMPTS == 10
DEAD_LETTER_CAP == 100

-----------------------------------------------------------------------------
(* Strings.  A name as it appears in a message or in the configuration is   *)
(* modelled by its three parts: an optional "tell/" prefix (in either case),*)
(* the bare name, and whether the bare name is written with capitals.       *)

Str(pre, base, caps) == [pre |-> pre, base |-> base, caps |-> caps]

\* String.prototype.toLowerCase
toLowerCase(s) ==
    [pre |-> IF s.pre = "Tell/" THEN "tell/" ELSE s.pre, base |-> s.base, caps |-> FALSE]

\* s.replace(/^tell\//, "")  -- the pattern is case-sensitive
stripTell(s) == IF s.pre = "tell/" THEN [s EXCEPT !.pre = ""] ELSE s

\* An optional value (undefined | T) is a sequence of length 0 or 1; a ?? d
Coalesce(a, d) == IF a = <<>> THEN d ELSE a[1]

-----------------------------------------------------------------------------
(* Delivery policy filter *)

checkDeliveryPolicy_AllowlistInverted(sender, ctConfig) ==
    LET policy == Coalesce(ctConfig.deliveryPolicy, "everyone")
        normalizedSender == stripTell(toLowerCase(sender))
        blocklist == Coalesce(ctConfig.deliveryBlocklist, {})
        allowlist == Coalesce(ctConfig.deliveryAllowlist, {})
    IN  CASE policy = "everyone" ->
               normalizedSender \notin {toLowerCase(s) : s \in blocklist}
          [] policy = "allowlist" ->
               normalizedSender \notin {toLowerCase(s) : s \in allowlist}
          [] policy = "blocklist" ->
               normalizedSender \notin {toLowerCase(s) : s \in blocklist}
          [] OTHER -> TRUE

\* checkDeliveryPolicy(sender, config).allowed
checkDeliveryPolicy(sender, ctConfig) ==
    LET policy == Coalesce(ctConfig.deliveryPolicy, "everyone")
        normalizedSender == stripTell(toLowerCase(sender))
        blocklist == Coalesce(ctConfig.deliveryBlocklist, {})
        allowlist == Coalesce(ctConfig.deliveryAllowlist, {})
    IN  CASE policy = "everyone" ->
               normalizedSender \notin {toLowerCase(s) : s \in blocklist}
          [] policy = "allowlist" ->
               normalizedSender \in {toLowerCase(s) : s \in allowlist}
          [] policy = "blocklist" ->
               normalizedSender \notin {toLowerCase(s) : s \in blocklist}
          [] OTHER -> TRUE

-----------------------------------------------------------------------------
(* Route table *)

\* a route entry; apiKey = "" stands for an entry without its own key
Route(agent, forward, apiKey) == [agent |-> agent, forward |-> forward, apiKey |-> apiKey]

HardcodedRoute == Route("main", TRUE, "")

\* Names every plain object inherits from Object.prototype
ObjectPrototypeKeys == {"constructor"}

\* routing[name], as an optional value: the table is a plain object
\* (routing = {}), so the lookup finds an own key first and otherwise a
\* property inherited from Object.prototype, which is a function and not a
\* route entry; undefined otherwise
Lookup(routing, name) ==
    IF name \in DOMAIN routing THEN <<routing[name]>>
    ELSE IF name \in ObjectPrototypeKeys THEN <<[inherited |-> name]>>
    ELSE <<>>

\* resolveRoute(toName, account) with routing = account.routing; entries and
\* inherited functions are objects, hence truthy
resolveRoute(toName, routing) ==
    IF Lookup(routing, toName) # <<>> THEN Lookup(routing, toName)[1]
    ELSE IF Lookup(routing, "_default") # <<>> THEN Lookup(routing, "_default")[1]
    ELSE HardcodedRoute

\* resolveReplyKey(route, accountApiKey): route.apiKey || accountApiKey
resolveReplyKey_AccountOnly(route, accountApiKey) == accountApiKey

\* (an inherited function has no apiKey property: undefined)
resolveReplyKey(route, accountApiKey) ==
    IF "apiKey" \in DOMAIN route /\ route.apiKey # "" THEN route.apiKey ELSE accountApiKey

-----------------------------------------------------------------------------
(* Local retry queue: the operations on the contents of the queue file *)

EmptyQueue == [pending |-> <<>>, deadLetter |-> <<>>]

\* queue.pending.some(m => m.id === id)
IsPending(q, id) == \E i \in 1..Len(q.pending) : q.pending[i].id = id

\* index of queue.pending.find(m => m.id === id), 0 when there is none
FindPending(q, id) ==
    IF IsPending(q, id)
    THEN CHOOSE i \in 1..Len(q.pending) :
            /\ q.pending[i].id = id
            /\ \A j \in 1..(i - 1) : q.pending[j].id # id
    ELSE 0

SliceLast_First(s, n) == IF Len(s) > n THEN SubSeq(s, 1, n) ELSE s

\* arr.slice(-n)
SliceLast(s, n) == IF Len(s) > n THEN SubSeq(s, Len(s) - n + 1, Len(s)) ELSE s

enqueue_NoDuplicateCheck(q, msg) == [q EXCEPT !.pending = Append(@, msg)]

\* enqueue(msg): the queue file after the call
enqueue(q, msg) ==
    IF IsPending(q, msg.id) THEN q
    ELSE [q EXCEPT !.pending = Append(@, msg)]

\* (a dequeue that drops the oldest entry when msgId is not pending)
dequeue_DropsOldest(q, msgId) ==
    [q EXCEPT !.pending = IF IsPending(q, msgId)
                          THEN SelectSeq(@, LAMBDA m : m.id # msgId)
                          ELSE SubSeq(@, 2, Len(@))]

\* dequeue(msgId): the queue file after the call
dequeue(q, msgId) ==
    [q EXCEPT !.pending = SelectSeq(@, LAMBDA m : m.id # msgId)]

Attempted_NoIncrement(q, msgId, error) ==
    [q.pending[FindPending(q, msgId)] EXCEPT !.lastError = error]

Attempted_KeepsError(q, msgId, error) ==
    [q.pending[FindPending(q, msgId)] EXCEPT !.attempts = @ + 1]

\* markAttempt(msgId, error): the entry after msg.attempts++; msg.lastError = error
Attempted(q, msgId, error) ==
    [q.pending[FindPending(q, msgId)] EXCEPT !.attempts = @ + 1, !.lastError = error]

ReachedCap_OffByOne(attempts) == attempts > MAX_ATTEMPTS

\* if (msg.attempts >= MAX_ATTEMPTS)
ReachedCap(attempts) == attempts >= MAX_ATTEMPTS

\* markAttempt(msgId, error): the value returned (<<>> is null)
markAttemptResult(q, msgId, error) ==
    IF ~IsPending(q, msgId) THEN <<>>
    ELSE IF ReachedCap(Attempted(q, msgId, error).attempts)
         THEN <<Attempted(q, msgId, error)>>
         ELSE <<>>

\* markAttempt(msgId, error): the queue file after the call
markAttempt(q, msgId, error) ==
    IF ~IsPending(q, msgId) THEN q
    ELSE IF ReachedCap(Attempted(q, msgId, error).attempts)
         THEN [pending    |-> SelectSeq(q.pending, LAMBDA m : m.id # msgId),
               deadLetter |-> SliceLast(Append(q.deadLetter, Attempted(q, msgId, error)),
                                        DEAD_LETTER_CAP)]
         ELSE [q EXCEPT !.pending[FindPending(q, msgId)] = Attempted(q, msgId, error)]

getPending_WithDeadLetter(q) == q.pending \o q.deadLetter

\* getPending()
getPending(q) == q.pending

-----------------------------------------------------------------------------
(* The account the engine runs for: one broker credential, and recipient    *)
(* identities routed to the default consumer and to two sub-agents.         *)

AccountApiKey == "k_acct"

Routing ==
    [name \in {"alice", "helper-bot", "scout-bot"} |->
        IF name = "alice" THEN Route("main", TRUE, "")
        ELSE IF name = "helper-bot" THEN Route("helper", TRUE, "k_helper")
        ELSE Route("scout", FALSE, "")]

CtConfig ==
    [deliveryPolicy    |-> <<"everyone">>,
     deliveryBlocklist |-> <<{Str("", "spammer", FALSE)}>>,
     deliveryAllowlist |-> <<>>]

(* The messages the broker may deliver: msg.id, msg.from, msg.to_name *)

Msgs == {"m1", "m2", "m3", "m4"}

MsgOrder == <<"m1", "m2", "m3", "m4">>

MsgFrom(id) == IF id = "m3" THEN Str("tell/", "spammer", TRUE) ELSE Str("tell/", "bob", FALSE)

MsgTo(id) ==
    IF id = "m2" THEN "helper-bot" ELSE IF id = "m4" THEN "scout-bot" ELSE "alice"

\* the messages senders address to the account in the run
Offered == IF "msgs" \in DOMAIN probe THEN probe.msgs ELSE {"m1", "m2", "m3"}

\* const senderName = (msg.from || "").replace(/^tell\//, "")
SenderName(id) == stripTell(MsgFrom(id))

\* const route = resolveRoute(toName, account)
RouteOf(id) == resolveRoute(MsgTo(id), Routing)

\* const agentName = route.agent || "main"
AgentName(id) == IF RouteOf(id).agent = "" THEN "main" ELSE RouteOf(id).agent

\* what the poll endpoint returns: the un-acknowledged messages, oldest first
InboxSeq(S) == SelectSeq(MsgOrder, LAMBDA m : m \in S)

Range(s) == {s[i] : i \in 1..Len(s)}

\* the QueuedMessage passed to enqueue after a failed first dispatch
NewQueuedMessage(id) ==
    [id          |-> id,
     from        |-> SenderName(id),
     toName      |-> MsgTo(id),
     agent       |-> AgentName(id),
     forward     |-> RouteOf(id).forward,
     attempts    |-> 1,
     lastError   |-> "initial dispatch failed",
     apiKey      |-> AccountApiKey,
     replyApiKey |-> IF resolveReplyKey(RouteOf(id), AccountApiKey) # AccountApiKey
                     THEN resolveReplyKey(RouteOf(id), AccountApiKey) ELSE ""]

-----------------------------------------------------------------------------
(* Observations *)

Bump(n) == IF n < MaxFails THEN n + 1 ELSE n

NoProbe == [op |-> "none"]

\* forwardToActiveChannel returns after sending, after a send that failed
\* (caught and logged inside), or at once for want of a delivery context
ForwardOutcomes == {"sent", "failed", "noContext"}

\* sends to the human channel counted per message before the counter saturates
MaxForwards == 2

\* forwardToActiveChannel was called for message id and ended with outcome
\* (kept where the run records its forwards)
Forwarded(id, outcome) ==
    IF "forwards" \in DOMAIN probe
    THEN [probe EXCEPT !.forwards[id] = IF outcome = "sent" /\ @ < MaxForwards THEN @ + 1 ELSE @,
                       !.outcome = outcome]
    ELSE probe

\* the acknowledgment of one batch is over: one call carrying ids was issued
\* per element of results (TRUE: the call returned, FALSE: it threw), and
\* none when ids is empty (kept where the run records its acknowledgments)
AckCalls(ids, results) ==
    IF "acks" \in DOMAIN probe
    THEN [probe EXCEPT !.acks = [i \in 1..Len(results) |-> [ids |-> ids, ok |-> results[i]]],
                       !.batch = messages]
    ELSE probe

CycleStart(h) ==
    [h EXCEPT !.ackLog = {}, !.disp = [m \in Msgs |-> "none"]]

\* a dispatchToAgent call for id returned result; failed attempts are counted
\* for the messages the retry queue is for (those routed to a sub-agent)
Observed(h, id, result, retry) ==
    IF result
    THEN [h EXCEPT !.delivered = @ \cup {id}, !.disp[id] = "ok"]
    ELSE [h EXCEPT !.fails[id] = IF AgentName(id) # "main" THEN Bump(@) ELSE @,
                   !.retryFails[id] = IF retry THEN Bump(@) ELSE @,
                   !.mainFailed = IF AgentName(id) = "main" THEN @ \cup {id} ELSE @,
                   !.disp[id] = "failed"]

\* an ack call carrying ids was issued
AckIssued(h, ids) ==
    [h EXCEPT !.ackLog = @ \cup {<<id, h.disp[id]>> : id \in ids}]

AckLogIds == {e[1] : e \in hist.ackLog}

\* the engine before its first cycle: nothing polled
InitState ==
    /\ aborted = FALSE
    /\ inbox = {}
    /\ arrived = {}
    /\ queued = <<>>
    /\ qi = 1
    /\ messages = <<>>
    /\ mi = 1
    /\ ackedIds = <<>>
    /\ ok = FALSE
    /\ deadLettered = <<>>
    /\ budget = [ack |-> MaxAckFail, io |-> MaxIoFail]
    /\ hist = [delivered  |-> {},
               dead       |-> {},
               alerts     |-> {},
               fails      |-> [m \in Msgs |-> 0],
               retryFails |-> [m \in Msgs |-> 0],
               lostMarks  |-> [m \in Msgs |-> 0],
               mainFailed |-> {},
               ackLog     |-> {},
               disp       |-> [m \in Msgs |-> "none"]]
    /\ consecutiveFailures = 0
    /\ tmpFile = <<>>
    /\ calls = <<>>
    /\ sse = [delay |-> 0, currentEvent |-> "", currentData |-> <<>>]

\* ... and the queue file absent (readQueue then returns
\* { pending: [], deadLetter: [] })
InitData ==
    /\ queue = EmptyQueue
    \* const processedIds = new Set<string>()
    /\ processedIds = <<>>
    /\ InitState

\* pollAccountLoop about to run its first cycle
InitEngine ==
    /\ pc = "loop"
    /\ InitData

Init ==
    /\ InitEngine
    /\ probe = NoProbe

-----------------------------------------------------------------------------
(* Environment *)

\* the broker stores a new message for one of the account's identities; the
\* engine reads the inbox only when it polls, so an arrival is taken at the
\* moment of the poll that first sees it
Arrive ==
    \E m \in Offered \ arrived :
        /\ pc = "poll"
        /\ inbox' = inbox \cup {m}
        /\ arrived' = arrived \cup {m}
        /\ UNCHANGED <<pc, aborted, queue, queued, qi, messages, mi, ackedIds, ok,
                       deadLettered, budget, hist, probe, OtherState>>

\* the host aborts the account's abortSignal; the loop reads the signal at the
\* top of a cycle and before each retry of the drain, so the abort is taken at
\* the read that first sees it
Abort ==
    /\ ~aborted
    /\ pc \in {"loop", "drain"}
    /\ aborted' = TRUE
    /\ UNCHANGED <<pc, inbox, arrived, queue, queued, qi, messages, mi, ackedIds, ok,
                   deadLettered, budget, hist, probe, OtherState>>

-----------------------------------------------------------------------------
(* pollAccountLoop: the retry drain *)

\* while (!abortSignal.aborted) { const queued = await getPending(); ...
LoopTop ==
    /\ pc = "loop"
    /\ IF aborted
       THEN /\ pc' = "stopped"
            /\ UNCHANGED <<queued, qi, hist>>
       ELSE /\ pc' = "drain"
            /\ queued' = getPending(queue)
            /\ qi' = 1
            /\ hist' = CycleStart(hist)
    /\ UNCHANGED <<aborted, inbox, arrived, queue, messages, mi, ackedIds, ok,
                   deadLettered, budget, probe, OtherState>>

\* the for loop over queued ends, or breaks on abort
DrainEnd ==
    /\ pc = "drain"
    /\ qi > Len(queued) \/ aborted
    /\ pc' = "poll"
    /\ queued' = <<>>
    /\ qi' = 1
    /\ UNCHANGED <<aborted, inbox, arrived, queue, messages, mi, ackedIds, ok,
                   deadLettered, budget, hist, probe, OtherState>>

\* const ok = await dispatchToAgent(runtime, opts, qm.apiKey, ..., {msgId: qm.id, ...})
RetryDispatch ==
    /\ pc = "drain"
    /\ qi <= Len(queued) /\ ~aborted
    /\ \E result \in BOOLEAN :
        /\ ok' = result
        /\ pc' = IF result THEN "drainAck" ELSE "drainMark"
        /\ hist' = Observed(hist, queued[qi].id, result, TRUE)
    /\ UNCHANGED <<aborted, inbox, arrived, queue, queued, qi, messages, mi, ackedIds,
                   deadLettered, budget, probe, OtherState>>

\* if (ok) { try { await batchAck(qm.apiKey, [qm.id]) } catch { log } ...
RetryAck ==
    /\ pc = "drainAck"
    /\ \E acked \in BOOLEAN :
        /\ ~acked => budget.ack > 0
        /\ inbox' = IF acked THEN inbox \ {queued[qi].id} ELSE inbox
        /\ budget' = IF acked THEN budget ELSE [budget EXCEPT !.ack = @ - 1]
    /\ hist' = AckIssued(hist, {queued[qi].id})
    /\ pc' = "drainDequeue"
    /\ UNCHANGED <<aborted, arrived, queue, queued, qi, messages, mi, ackedIds, ok,
                   deadLettered, probe, OtherState>>

\* ... await dequeue(qm.id) }   (a failed write throws to the catch of the drain)
RetryDequeue ==
    /\ pc = "drainDequeue"
    /\ \E written \in BOOLEAN :
        /\ ~written => budget.io > 0
        /\ IF written
           THEN /\ queue' = dequeue(queue, queued[qi].id)
                /\ qi' = qi + 1
                /\ pc' = "drain"
                /\ UNCHANGED <<queued, budget>>
           ELSE /\ pc' = "poll"
                /\ queued' = <<>>
                /\ qi' = 1
                /\ budget' = [budget EXCEPT !.io = @ - 1]
                /\ UNCHANGED queue
    /\ ok' = FALSE
    /\ UNCHANGED <<aborted, inbox, arrived, messages, mi, ackedIds, deadLettered,
                   hist, probe, OtherState>>

RetryMarkAttempt_NoAdvance ==
    /\ pc = "drainMark"
    /\ queue' = markAttempt(queue, queued[qi].id, "dispatch failed on retry")
    /\ deadLettered' = <<>>
    /\ pc' = "drain"
    /\ ok' = FALSE
    /\ UNCHANGED <<queued, qi, budget, hist>>
    /\ UNCHANGED <<aborted, inbox, arrived, messages, mi, ackedIds, probe, OtherState>>

\* else { const deadLettered = await markAttempt(qm.id, "dispatch failed on retry") ...
RetryMarkAttempt ==
    /\ pc = "drainMark"
    /\ LET id == queued[qi].id
           result == markAttemptResult(queue, id, "dispatch failed on retry")
       IN \E written \in BOOLEAN :
            /\ ~written => budget.io > 0 /\ IsPending(queue, id)
            /\ IF written
               THEN /\ queue' = markAttempt(queue, id, "dispatch failed on retry")
                    /\ deadLettered' = result
                    /\ hist' = IF result # <<>>
                               THEN [hist EXCEPT !.dead = @ \cup {id}, !.disp[id] = "dead"]
                               ELSE hist
                    /\ IF result # <<>>
                       THEN pc' = "drainAlert" /\ UNCHANGED <<queued, qi>>
                       ELSE pc' = "drain" /\ qi' = qi + 1 /\ UNCHANGED queued
                    /\ UNCHANGED budget
               ELSE /\ pc' = "poll"
                    /\ queued' = <<>>
                    /\ qi' = 1
                    /\ budget' = [budget EXCEPT !.io = @ - 1]
                    /\ hist' = [hist EXCEPT !.lostMarks[id] = @ + 1]
                    /\ UNCHANGED <<queue, deadLettered>>
    /\ ok' = FALSE
    /\ UNCHANGED <<aborted, inbox, arrived, messages, mi, ackedIds, probe, OtherState>>

\* if (deadLettered) { try { await forwardToActiveChannel(runtime,
\*   `... Message ${qm.id} ... failed after ${qm.attempts} attempts. Last error: ${qm.lastError}`,
\*   opts.config, "main") } catch {}
DeadLetterAlert ==
    /\ pc = "drainAlert"
    /\ hist' = [hist EXCEPT !.alerts = @ \cup {[id        |-> queued[qi].id,
                                                attempts  |-> queued[qi].attempts,
                                                lastError |-> queued[qi].lastError]}]
    /\ pc' = "drainDlAck"
    /\ UNCHANGED <<aborted, inbox, arrived, queue, queued, qi, messages, mi, ackedIds,
                   ok, deadLettered, budget, probe, OtherState>>

\* ... try { await batchAck(qm.apiKey, [qm.id]) } catch {} }
DeadLetterAck ==
    /\ pc = "drainDlAck"
    /\ \E acked \in BOOLEAN :
        /\ ~acked => budget.ack > 0
        /\ inbox' = IF acked THEN inbox \ {queued[qi].id} ELSE inbox
        /\ budget' = IF acked THEN budget ELSE [budget EXCEPT !.ack = @ - 1]
    /\ hist' = AckIssued(hist, {queued[qi].id})
    /\ deadLettered' = <<>>
    /\ qi' = qi + 1
    /\ pc' = "drain"
    /\ UNCHANGED <<aborted, arrived, queue, queued, messages, mi, ackedIds, ok, probe, OtherState>>

-----------------------------------------------------------------------------
(* pollAccountLoop: new messages *)

\* const messages = await pollAccountMessages(apiKey, ...); const ackedIds = []
Poll ==
    /\ pc = "poll"
    /\ messages' = InboxSeq(inbox)
    /\ ackedIds' = <<>>
    /\ mi' = 1
    /\ pc' = "msg"
    /\ UNCHANGED <<aborted, inbox, arrived, queue, queued, qi, ok, deadLettered,
                   budget, hist, probe, OtherState>>

\* pollAccountMessages throws (network error, non-2xx): caught at the cycle boundary
PollError ==
    /\ pc = "poll"
    /\ pc' = "sleep"
    /\ UNCHANGED <<aborted, inbox, arrived, queue, queued, qi, messages, mi, ackedIds,
                   ok, deadLettered, budget, hist, probe, OtherState>>

\* for (const msg of messages) { checkDeliveryPolicy; resolveRoute; processAttachments
BeginMessage ==
    /\ pc = "msg"
    /\ mi <= Len(messages)
    /\ LET msg == messages[mi]
       IN IF ~checkDeliveryPolicy(SenderName(msg), CtConfig)
          THEN /\ ackedIds' = Append(ackedIds, msg)
               /\ mi' = mi + 1
               /\ hist' = [hist EXCEPT !.disp[msg] = "rejected"]
               /\ UNCHANGED pc
          ELSE /\ pc' = IF RouteOf(msg).forward THEN "forward" ELSE "dispatch"
               /\ hist' = [hist EXCEPT !.disp[msg] = "unknown"]
               /\ UNCHANGED <<ackedIds, mi>>
    /\ UNCHANGED <<aborted, inbox, arrived, queue, queued, qi, messages, ok,
                   deadLettered, budget, probe, OtherState>>

\* a forward that did not send ends the handling of the message
Forward_FailureSkipsDispatch ==
    /\ pc = "forward"
    /\ \E outcome \in ForwardOutcomes :
        /\ probe' = Forwarded(messages[mi], outcome)
        /\ IF outcome = "sent"
           THEN pc' = "dispatch" /\ UNCHANGED mi
           ELSE pc' = "msg" /\ mi' = mi + 1
    /\ UNCHANGED <<aborted, inbox, arrived, queue, queued, qi, messages, ackedIds,
                   ok, deadLettered, budget, hist, OtherState>>

\* if (route.forward) { try { await forwardToActiveChannel(runtime, messageContent,
\*   opts.config, agentName, resolvedAttachments) } catch { log } }
Forward ==
    /\ pc = "forward"
    /\ pc' = "dispatch"
    /\ \E outcome \in ForwardOutcomes : probe' = Forwarded(messages[mi], outcome)
    /\ UNCHANGED <<aborted, inbox, arrived, queue, queued, qi, messages, mi, ackedIds,
                   ok, deadLettered, budget, hist, OtherState>>

\* const ok = await dispatchToAgent(runtime, opts, apiKey, replyKey, {msgId: msg.id, ...})
Dispatch ==
    /\ pc = "dispatch"
    /\ \E result \in BOOLEAN :
        /\ ok' = result
        /\ hist' = Observed(hist, messages[mi], result, FALSE)
    /\ pc' = "dispose"
    /\ UNCHANGED <<aborted, inbox, arrived, queue, queued, qi, messages, mi, ackedIds,
                   deadLettered, budget, probe, OtherState>>

Dispose_AckMainFailure ==
    /\ pc = "dispose"
    /\ LET msg == messages[mi]
       IN IF ok \/ AgentName(msg) = "main"
          THEN /\ ackedIds' = Append(ackedIds, msg)
               /\ mi' = mi + 1
               /\ pc' = "msg"
          ELSE /\ pc' = "enqueue"
               /\ UNCHANGED <<ackedIds, mi>>
    /\ ok' = FALSE
    /\ UNCHANGED <<aborted, inbox, arrived, queue, queued, qi, messages, deadLettered,
                   budget, hist, probe, OtherState>>

Dispose_QueueMain ==
    /\ pc = "dispose"
    /\ LET msg == messages[mi]
       IN IF ok
          THEN /\ ackedIds' = Append(ackedIds, msg)
               /\ mi' = mi + 1
               /\ pc' = "msg"
          ELSE /\ pc' = "enqueue"
               /\ UNCHANGED <<ackedIds, mi>>
    /\ ok' = FALSE
    /\ UNCHANGED <<aborted, inbox, arrived, queue, queued, qi, messages, deadLettered,
                   budget, hist, probe, OtherState>>

Dispose_PushBeforeEnqueue ==
    /\ pc = "dispose"
    /\ LET msg == messages[mi]
       IN IF ok
          THEN /\ ackedIds' = Append(ackedIds, msg)
               /\ mi' = mi + 1
               /\ pc' = "msg"
          ELSE IF AgentName(msg) # "main"
          THEN /\ ackedIds' = Append(ackedIds, msg)
               /\ pc' = "enqueue"
               /\ UNCHANGED mi
          ELSE /\ mi' = mi + 1
               /\ pc' = "msg"
               /\ UNCHANGED ackedIds
    /\ ok' = FALSE
    /\ UNCHANGED <<aborted, inbox, arrived, queue, queued, qi, messages, deadLettered,
                   budget, hist, probe, OtherState>>

\* if (ok) { ackedIds.push(msg.id) } else if (agentName !== "main") { enqueue ... }
\* (a failed dispatch to main is neither acknowledged nor queued)
Dispose ==
    /\ pc = "dispose"
    /\ LET msg == messages[mi]
       IN IF ok
          THEN /\ ackedIds' = Append(ackedIds, msg)
               /\ mi' = mi + 1
               /\ pc' = "msg"
          ELSE IF AgentName(msg) # "main"
          THEN /\ pc' = "enqueue"
               /\ UNCHANGED <<ackedIds, mi>>
          ELSE /\ mi' = mi + 1
               /\ pc' = "msg"
               /\ UNCHANGED ackedIds
    /\ ok' = FALSE
    /\ UNCHANGED <<aborted, inbox, arrived, queue, queued, qi, messages, deadLettered,
                   budget, hist, probe, OtherState>>

\* the catch of the poll phase: the cycle's locals go out of scope
CycleError ==
    /\ pc' = "sleep"
    /\ messages' = <<>>
    /\ mi' = 1
    /\ ackedIds' = <<>>

Enqueue_SwallowWriteError ==
    /\ pc = "enqueue"
    /\ LET msg == messages[mi]
       IN \E written \in BOOLEAN :
            /\ ~written => budget.io > 0 /\ ~IsPending(queue, msg)
            /\ queue' = IF written THEN enqueue(queue, NewQueuedMessage(msg)) ELSE queue
            /\ budget' = IF written THEN budget ELSE [budget EXCEPT !.io = @ - 1]
            /\ hist' = IF IsPending(queue, msg) \/ ~written THEN hist
                       ELSE [hist EXCEPT !.retryFails[msg] = 0, !.lostMarks[msg] = 0]
    /\ pc' = "enqueued"
    /\ UNCHANGED <<aborted, inbox, arrived, queued, qi, messages, mi, ackedIds, ok,
                   deadLettered, probe, OtherState>>

\* await enqueue({id: msg.id, ..., attempts: 1, lastError: "initial dispatch failed", ...})
\* (enqueue writes the file unless the id is already pending; a failed write throws)
Enqueue ==
    /\ pc = "enqueue"
    /\ LET msg == messages[mi]
       IN \E written \in BOOLEAN :
            /\ ~written => budget.io > 0 /\ ~IsPending(queue, msg)
            /\ IF written
               THEN /\ queue' = enqueue(queue, NewQueuedMessage(msg))
                    /\ pc' = "enqueued"
                    /\ hist' = IF IsPending(queue, msg) THEN hist
                               ELSE [hist EXCEPT !.retryFails[msg] = 0,
                                                 !.lostMarks[msg] = 0]
                    /\ UNCHANGED <<messages, mi, ackedIds, budget>>
               ELSE /\ CycleError
                    /\ budget' = [budget EXCEPT !.io = @ - 1]
                    /\ UNCHANGED <<queue, hist>>
    /\ UNCHANGED <<aborted, inbox, arrived, queued, qi, ok, deadLettered, probe, OtherState>>

\* ackedIds.push(msg.id)  -- "we own delivery now via local queue"
PushQueued ==
    /\ pc = "enqueued"
    /\ ackedIds' = Append(ackedIds, messages[mi])
    /\ hist' = [hist EXCEPT !.disp[messages[mi]] = "queued"]
    /\ mi' = mi + 1
    /\ pc' = "msg"
    /\ UNCHANGED <<aborted, inbox, arrived, queue, queued, qi, messages, ok,
                   deadLettered, budget, probe, OtherState>>

\* (a batchAck that is called again after it has thrown)
BatchAck_RetriesOnce ==
    /\ pc = "msg"
    /\ mi > Len(messages)
    /\ IF ackedIds = <<>>
       THEN /\ probe' = AckCalls(<<>>, <<>>)
            /\ UNCHANGED <<inbox, budget, hist>>
       ELSE /\ \E acked \in BOOLEAN :
                /\ ~acked => budget.ack > 0
                /\ inbox' = IF acked THEN inbox \ Range(ackedIds) ELSE inbox
                /\ budget' = IF acked THEN budget ELSE [budget EXCEPT !.ack = @ - 1]
                /\ probe' = AckCalls(ackedIds, IF acked THEN <<TRUE>> ELSE <<FALSE, FALSE>>)
            /\ hist' = AckIssued(hist, Range(ackedIds))
    /\ pc' = "sleep"
    /\ messages' = <<>>
    /\ mi' = 1
    /\ ackedIds' = <<>>
    /\ UNCHANGED <<aborted, arrived, queue, queued, qi, ok, deadLettered, OtherState>>

\* if (ackedIds.length > 0) { try { await batchAck(apiKey, ackedIds) } catch { log } }
BatchAck ==
    /\ pc = "msg"
    /\ mi > Len(messages)
    /\ IF ackedIds = <<>>
       THEN /\ probe' = AckCalls(<<>>, <<>>)
            /\ UNCHANGED <<inbox, budget, hist>>
       ELSE /\ \E acked \in BOOLEAN :
                /\ ~acked => budget.ack > 0
                /\ inbox' = IF acked THEN inbox \ Range(ackedIds) ELSE inbox
                /\ budget' = IF acked THEN budget ELSE [budget EXCEPT !.ack = @ - 1]
                /\ probe' = AckCalls(ackedIds, <<acked>>)
            /\ hist' = AckIssued(hist, Range(ackedIds))
    /\ pc' = "sleep"
    /\ messages' = <<>>
    /\ mi' = 1
    /\ ackedIds' = <<>>
    /\ UNCHANGED <<aborted, arrived, queue, queued, qi, ok, deadLettered, OtherState>>

\* await new Promise(resolve => setTimeout(resolve, pollIntervalMs) | abort)
Sleep ==
    /\ pc = "sleep"
    /\ pc' = "loop"
    /\ UNCHANGED <<aborted, inbox, arrived, queue, queued, qi, messages, mi, ackedIds,
                   ok, deadLettered, budget, hist, probe, OtherState>>

-----------------------------------------------------------------------------

Next ==
    \/ Arrive
    \/ Abort
    \/ LoopTop
    \/ DrainEnd
    \/ RetryDispatch
    \/ RetryAck
    \/ RetryDequeue
    \/ RetryMarkAttempt
    \/ DeadLetterAlert
    \/ DeadLetterAck
    \/ Poll
    \/ PollError
    \/ BeginMessage
    \/ Forward
    \/ Dispatch
    \/ Dispose
    \/ Enqueue
    \/ PushQueued
    \/ BatchAck
    \/ Sleep

Spec == Init /\ [][Next]_vars

\* The steps of the loop itself: every await of the loop completes
LoopStep ==
    \/ LoopTop
    \/ DrainEnd
    \/ RetryDispatch
    \/ RetryAck
    \/ RetryDequeue
    \/ RetryMarkAttempt
    \/ DeadLetterAlert
    \/ DeadLetterAck
    \/ Poll
    \/ PollError
    \/ BeginMessage
    \/ Forward
    \/ Dispatch
    \/ Dispose
    \/ Enqueue
    \/ PushQueued
    \/ BatchAck
    \/ Sleep

\* The loop keeps running, and the broker keeps re-offering what is not
\* acknowledged: a poll that is attempted again and again eventually succeeds
SpecLive == Init /\ [][Next]_vars /\ WF_vars(LoopStep) /\ SF_vars(Poll)

TypeOK ==
    /\ pc \in {"loop", "drain", "drainAck", "drainDequeue", "drainMark", "drainAlert",
               "drainDlAck", "poll", "msg", "forward", "dispatch", "dispose", "enqueue",
               "enqueued", "sleep", "stopped"}
    /\ inbox \subseteq arrived
    /\ arrived \subseteq Msgs

-----------------------------------------------------------------------------
(* Properties of the account-level engine *)

Accepted(m) == checkDeliveryPolicy(SenderName(m), CtConfig)

\* the broker no longer holds m: an ack call carrying its id succeeded
Acknowledged(m) == m \in arrived /\ m \notin inbox

PendingCount(q, id) == Cardinality({i \in 1..Len(q.pending) : q.pending[i].id = id})

DeadLetterCount(q, id) == Cardinality({i \in 1..Len(q.deadLetter) : q.deadLetter[i].id = id})

\* C1 -- No premature ack: every id carried by an ack call, and every id in the
\* batch being collected, has a known disposition at that moment: rejected by
\* the policy filter, dispatched with result true, or handed to the retry queue
\* by a completed enqueue (and, for the drain's ack, dead-lettered out of it).
C1_NoPrematureAck ==
    /\ \A e \in hist.ackLog : e[2] \in {"rejected", "ok", "queued", "dead"}
    /\ \A i \in 1..Len(ackedIds) : hist.disp[ackedIds[i]] \in {"rejected", "ok", "queued"}

\* a cycle whose ack call carried a queued id while the dispatch to main failed
C1_Witness ==
    /\ <<"m2", "queued">> \in hist.ackLog
    /\ <<"m3", "rejected">> \in hist.ackLog
    /\ hist.disp["m1"] = "failed"

\* C2 -- At-least-once: while the loop runs, every policy-accepted message
\* routed to a sub-agent is eventually dispatched successfully, or reaches
\* dead-letter with its alert emitted.  A policy-accepted message routed to
\* "main" stays with the broker (is never acknowledged) until a dispatch of it
\* succeeded, and as long as none did it is dispatched again and again.
C2_AtLeastOnce ==
    \A m \in Msgs :
        /\ Accepted(m) /\ AgentName(m) # "main" =>
              ((m \in arrived) ~>
                  \/ m \in hist.delivered
                  \/ m \in hist.dead /\ m \in {a.id : a \in hist.alerts}
                  \/ aborted)
        /\ Accepted(m) /\ AgentName(m) = "main" =>
              /\ [](m \in arrived /\ m \notin hist.delivered => m \in inbox)
              /\ (m \in arrived) ~>
                    \/ m \in hist.delivered
                    \/ pc = "dispatch" /\ messages[mi] = m
                    \/ aborted

\* m2 went to dead-letter with its alert without ever being delivered, while
\* m1, whose dispatch to main failed before, is dispatched once more
C2_Witness ==
    /\ "m2" \in hist.dead
    /\ "m2" \in {a.id : a \in hist.alerts}
    /\ "m2" \notin hist.delivered
    /\ "m1" \in hist.mainFailed
    /\ "m1" \notin hist.delivered
    /\ pc = "dispatch" /\ messages[mi] = "m1"
    /\ ~aborted

C4_MainFailureLeftUnacked ==
    \A m \in Msgs :
        /\ AgentName(m) = "main" /\ hist.disp[m] = "failed" =>
              /\ m \notin AckLogIds
              /\ m \notin Range(ackedIds)
              /\ m \in inbox
        /\ AgentName(m) = "main" => ~IsPending(queue, m)
        /\ m \in hist.mainFailed /\ m \notin hist.delivered => m \in inbox

\* m1 failed in an earlier cycle and is being dispatched again after a later poll
C4_Witness ==
    /\ "m1" \in hist.mainFailed
    /\ pc = "dispatch"
    /\ messages[mi] = "m1"
    /\ hist.disp["m1"] = "unknown"
    /\ "m1" \notin hist.delivered

PendingEntry(q, id) == q.pending[FindPending(q, id)]

\* C5 as stated -- a failed dispatch to a non-default consumer leaves a pending
\* entry with attempts = 1 before the id joins the ack batch, and every id
\* whose dispatch succeeded or that was queued is carried by an ack call of the
\* same cycle; a successful dispatch does not touch the queue.
C5_AsStated ==
    /\ [](\A i \in 1..Len(ackedIds) :
            hist.disp[ackedIds[i]] = "queued" =>
                /\ IsPending(queue, ackedIds[i])
                /\ PendingEntry(queue, ackedIds[i]).attempts = 1)
    /\ [](pc = "sleep" =>
            \A m \in Msgs : hist.disp[m] \in {"ok", "queued"} => m \in AckLogIds)
    /\ [][pc = "dispose" /\ ok /\ pc' # pc => queue' = queue]_vars

\* C5 (amended) -- after a failed dispatch to a non-default consumer, enqueue is
\* called with attempts = 1 and completes before the id joins the ack batch: it
\* inserts a new entry with attempts = 1, or leaves the entry already pending
\* for that id unchanged.  A successful dispatch adds the id to the batch and
\* leaves the queue alone.  When the cycle reaches its batch ack, that one call
\* carries every id added to the batch.
C5_EnqueueBeforeAck ==
    /\ [](\A i \in 1..Len(ackedIds) :
            AgentName(ackedIds[i]) # "main" /\ hist.disp[ackedIds[i]] \in {"failed", "queued"}
                => IsPending(queue, ackedIds[i]))
    /\ [][pc = "enqueue" /\ pc' = "enqueued" =>
            LET m == messages[mi]
            IN IF IsPending(queue, m)
               THEN queue' = queue
               ELSE /\ Len(queue'.pending) = Len(queue.pending) + 1
                    /\ SubSeq(queue'.pending, 1, Len(queue.pending)) = queue.pending
                    /\ queue'.pending[Len(queue'.pending)].id = m
                    /\ queue'.pending[Len(queue'.pending)].attempts = 1
                    /\ queue'.deadLetter = queue.deadLetter]_vars
    /\ [][pc = "dispose" /\ ok /\ pc' # pc =>
            queue' = queue /\ ackedIds' = Append(ackedIds, messages[mi])]_vars
    /\ [][pc = "msg" /\ pc' = "sleep" =>
            \A m \in Range(messages) :
                hist.disp[m] \in {"rejected", "ok", "queued"} =>
                    m \in {e[1] : e \in hist'.ackLog}]_vars

\* m2 was queued in this cycle on top of an entry already pending with two
\* attempts, after m1 was dispatched successfully
C5_Witness ==
    /\ pc = "msg"
    /\ ackedIds = <<"m1", "m2">>
    /\ hist.disp["m1"] = "ok"
    /\ hist.disp["m2"] = "queued"
    /\ IsPending(queue, "m2")
    /\ PendingEntry(queue, "m2").attempts = 2

\* C7 as stated -- Dead-letter cap: at the end of every cycle, a message with
\* MAX_ATTEMPTS or more failed delivery attempts is out of pending and appears
\* in the dead-letter list exactly once, and a message with fewer failed
\* attempts is not dead-lettered.
C7_DeadLetterCapExact ==
    pc = "sleep" =>
        \A m \in Msgs :
            /\ hist.fails[m] >= MAX_ATTEMPTS =>
                  ~IsPending(queue, m) /\ DeadLetterCount(queue, m) = 1
            /\ hist.fails[m] < MAX_ATTEMPTS => DeadLetterCount(queue, m) = 0

\* the qm of the drain's current iteration
Qm == queued[qi]

-----------------------------------------------------------------------------
(* Harness for the queue API: enqueue, dequeue and markAttempt called in any *)
(* order with any arguments on the queue file.                              *)

EngineVars == <<pc, aborted, inbox, arrived, queued, qi, messages, mi, ackedIds, ok,
                deadLettered, budget, hist, OtherState>>

QueueIds == {"q1", "q2"}

QueueErrors == {"dispatch failed on retry", "timeout"}

\* a QueuedMessage as a caller may pass it to enqueue
QueuedMessageOf(id, attempts, lastError) ==
    [id          |-> id,
     from        |-> Str("", "bob", FALSE),
     toName      |-> "helper-bot",
     agent       |-> "helper",
     forward     |-> TRUE,
     attempts    |-> attempts,
     lastError   |-> lastError,
     apiKey      |-> AccountApiKey,
     replyApiKey |-> ""]

CallEnqueue ==
    \E id \in QueueIds, attempts \in {1, MAX_ATTEMPTS - 1},
       lastError \in {"initial dispatch failed", "timeout"} :
        /\ queue' = enqueue(queue, QueuedMessageOf(id, attempts, lastError))
        /\ probe' = [op |-> "enqueue", id |-> id,
                     again |-> probe.op = "enqueue" /\ probe.id = id,
                     wasPending |-> IsPending(queue, id), result |-> <<>>]
        /\ UNCHANGED EngineVars

CallDequeue ==
    \E id \in QueueIds :
        /\ queue' = dequeue(queue, id)
        /\ probe' = [op |-> "dequeue", id |-> id, again |-> FALSE,
                     wasPending |-> IsPending(queue, id), result |-> <<>>]
        /\ UNCHANGED EngineVars

CallMarkAttempt ==
    \E id \in QueueIds, error \in QueueErrors :
        /\ markAttemptResult(queue, id, error) # <<>> => Len(queue.deadLetter) < MaxDeadLetters
        /\ queue' = markAttempt(queue, id, error)
        /\ probe' = [op |-> "markAttempt", id |-> id, again |-> FALSE,
                     wasPending |-> IsPending(queue, id),
                     result |-> markAttemptResult(queue, id, error)]
        /\ UNCHANGED EngineVars

InitQueue ==
    /\ InitEngine
    /\ probe = [op |-> "start", id |-> "", again |-> FALSE,
                wasPending |-> FALSE, result |-> <<>>]

NextQueue == CallEnqueue \/ CallDequeue \/ CallMarkAttempt

SpecQueue == InitQueue /\ [][NextQueue]_vars

\* C6 -- Idempotent enqueue: enqueue(m) while an entry with m.id is pending
\* leaves the store unchanged, whatever attempts and lastError m carries;
\* after any enqueue(m), and so after two in a row, exactly one pending entry
\* has id m.id.
C6_IdempotentEnqueue ==
    /\ [][probe'.op = "enqueue" /\ IsPending(queue, probe'.id) => queue' = queue]_vars
    /\ [](probe.op = "enqueue" => PendingCount(queue, probe.id) = 1)
    /\ [](\A id \in QueueIds : PendingCount(queue, id) <= 1)

\* enqueue(q1) was called twice in a row while q1 was pending with attempts
\* raised by markAttempt
C6_Witness ==
    /\ probe.op = "enqueue"
    /\ probe.id = "q1"
    /\ probe.again
    /\ PendingCount(queue, "q1") = 1
    /\ PendingEntry(queue, "q1").attempts = 3
    /\ PendingEntry(queue, "q1").lastError = "timeout"
    /\ Len(queue.pending) = 2

-----------------------------------------------------------------------------
(* Harness for the pure functions: each is applied once to an input drawn   *)
(* from a bounded set.                                                      *)

RecipientNames == {"alice", "helper-bot", "unknown", "_default", "constructor"}

RouteKeys == {"alice", "helper-bot", "_default"}

RouteEntries == {Route("main", TRUE, ""), Route("helper", FALSE, "k_helper"),
                 Route("helper", TRUE, ""), Route("helper", TRUE, AccountApiKey)}

\* account.routing: any table over some of the keys
RoutingTables == UNION {[keys -> RouteEntries] : keys \in SUBSET RouteKeys}

Senders == {Str(pre, base, caps) :
                pre \in {"", "tell/", "Tell/"}, base \in {"bob", "spammer"}, caps \in BOOLEAN}

Policies == {<<>>, <<"everyone">>, <<"allowlist">>, <<"blocklist">>, <<"nobody">>, <<"">>}

Blocklists == {<<>>, <<{}>>, <<{Str("", "spammer", FALSE)}>>, <<{Str("", "spammer", TRUE)}>>,
               <<{Str("tell/", "spammer", FALSE)}>>,
               <<{Str("", "bob", FALSE), Str("", "spammer", FALSE)}>>}

Allowlists == {<<>>, <<{Str("", "bob", FALSE)}>>, <<{Str("", "bob", TRUE)}>>,
               <<{Str("tell/", "bob", FALSE)}>>}

\* (config.channels as any)?.clawtell ?? {}
CtConfigs == [deliveryPolicy : Policies, deliveryBlocklist : Blocklists,
              deliveryAllowlist : Allowlists]

InitFn ==
    /\ InitEngine
    /\ queue = EmptyQueue
    /\ \/ \E toName \in RecipientNames, routing \in RoutingTables :
             probe = [op |-> "resolveRoute", toName |-> toName, routing |-> routing,
                      result |-> <<>>]
       \/ \E sender \in Senders, ctConfig \in CtConfigs :
             probe = [op |-> "checkDeliveryPolicy", sender |-> sender, config |-> ctConfig,
                      result |-> <<>>]

CallResolveRoute ==
    /\ probe.op = "resolveRoute"
    /\ probe.result = <<>>
    /\ probe' = [probe EXCEPT !.result = <<resolveRoute(probe.toName, probe.routing)>>]
    /\ UNCHANGED <<EngineVars, queue>>

CallCheckDeliveryPolicy ==
    /\ probe.op = "checkDeliveryPolicy"
    /\ probe.result = <<>>
    /\ probe' = [probe EXCEPT !.result = <<checkDeliveryPolicy(probe.sender, probe.config)>>]
    /\ UNCHANGED <<EngineVars, queue>>

NextFn == CallResolveRoute \/ CallCheckDeliveryPolicy

SpecFn == InitFn /\ [][NextFn]_vars

\* C9 -- Route resolution: for every recipient name and routing table the
\* result is the entry keyed by the recipient name when the table has one,
\* otherwise the "_default" entry when the table has one, otherwise the
\* hardcoded entry {agent: "main", forward: true}.
C9_RouteResolution ==
    probe.op = "resolveRoute" /\ probe.result # <<>> =>
        LET route == probe.result[1]
            keys  == DOMAIN probe.routing
        IN /\ Len(probe.result) = 1
           /\ probe.toName \in keys => route = probe.routing[probe.toName]
           /\ probe.toName \notin keys /\ "_default" \in keys =>
                 route = probe.routing["_default"]
           /\ probe.toName \notin keys /\ "_default" \notin keys =>
                 route = Route("main", TRUE, "")

\* the sender's name without a leading tell/ is an entry of the list, compared
\* case-insensitively
OnList(sender, list) ==
    \E entry \in Coalesce(list, {}) :
        toLowerCase(entry) =
            toLowerCase(IF sender.pre \in {"tell/", "Tell/"}
                        THEN [sender EXCEPT !.pre = ""] ELSE sender)

\* C10 -- Delivery policy decision: under "everyone" (also when the policy is
\* missing) and under "blocklist" a sender is rejected exactly when it is on
\* deliveryBlocklist; under "allowlist" it is allowed exactly when it is on
\* deliveryAllowlist; under any other policy value every sender is allowed.
C10_DeliveryPolicy ==
    probe.op = "checkDeliveryPolicy" /\ probe.result # <<>> =>
        LET allowed == probe.result[1]
            policy  == probe.config.deliveryPolicy
        IN /\ policy \in {<<>>, <<"everyone">>, <<"blocklist">>} =>
                 (allowed <=> ~OnList(probe.sender, probe.config.deliveryBlocklist))
           /\ policy = <<"allowlist">> =>
                 (allowed <=> OnList(probe.sender, probe.config.deliveryAllowlist))
           /\ policy \notin {<<>>, <<"everyone">>, <<"blocklist">>, <<"allowlist">>} => allowed

\* "Tell/Bob" allowed under "allowlist" by the entry "bob"
C10_Witness ==
    /\ probe.op = "checkDeliveryPolicy"
    /\ probe.sender = Str("Tell/", "bob", TRUE)
    /\ probe.config.deliveryPolicy = <<"allowlist">>
    /\ probe.config.deliveryAllowlist = <<{Str("", "bob", FALSE)}>>
    /\ probe.config.deliveryBlocklist = <<{Str("", "bob", FALSE), Str("", "spammer", FALSE)}>>
    /\ probe.result = <<TRUE>>

-----------------------------------------------------------------------------
(* pollLegacyLoop: the single-name loop over the inbox endpoint.  It shares *)
(* with pollAccountLoop the broker's inbox, the abort signal and the        *)
(* observations; processedIds is its own.                                   *)

PROCESSED_MAX == 1000
PROCESSED_KEEP == 500

LegacyUnchanged == <<queue, queued, qi, ackedIds, deadLettered, probe,
                     consecutiveFailures, tmpFile, calls, sse>>

\* the truncation keeps the oldest ids
AddProcessed_KeepsOldest(ids, id) ==
    LET added == IF id \in Range(ids) THEN ids ELSE Append(ids, id)
    IN IF Len(added) > PROCESSED_MAX THEN SubSeq(added, 1, PROCESSED_KEEP) ELSE added

\* processedIds.add(msg.id), then the truncation to the most recent ids
AddProcessed(ids, id) ==
    LET added == IF id \in Range(ids) THEN ids ELSE Append(ids, id)
    IN IF Len(added) > PROCESSED_MAX THEN SliceLast(added, PROCESSED_KEEP) ELSE added

InitLegacy ==
    /\ pc = "legacyLoop"
    /\ InitData
    /\ probe = NoProbe

\* the broker stores a new message; taken at the fetch that first sees it
LegacyArrive ==
    \E m \in Offered \ arrived :
        /\ pc = "legacyFetch"
        /\ inbox' = inbox \cup {m}
        /\ arrived' = arrived \cup {m}
        /\ UNCHANGED <<pc, aborted, messages, mi, ok, budget, hist, processedIds,
                       LegacyUnchanged>>

\* the host aborts; taken where the loop reads the signal
LegacyAbort ==
    /\ ~aborted
    /\ pc = "legacyLoop"
    /\ aborted' = TRUE
    /\ UNCHANGED <<pc, inbox, arrived, messages, mi, ok, budget, hist, processedIds,
                   LegacyUnchanged>>

\* while (!abortSignal.aborted) { try {
LegacyTop ==
    /\ pc = "legacyLoop"
    /\ pc' = IF aborted THEN "stopped" ELSE "legacyFetch"
    /\ hist' = IF aborted THEN hist ELSE CycleStart(hist)
    /\ UNCHANGED <<aborted, inbox, arrived, messages, mi, ok, budget, processedIds,
                   LegacyUnchanged>>

\* const messages = await fetchInbox(apiKey, { unreadOnly: true })
LegacyFetch ==
    /\ pc = "legacyFetch"
    /\ messages' = InboxSeq(inbox)
    /\ mi' = 1
    /\ pc' = "legacyMsg"
    /\ UNCHANGED <<aborted, inbox, arrived, ok, budget, hist, processedIds, LegacyUnchanged>>

\* fetchInbox throws: caught at the cycle boundary
LegacyFetchError ==
    /\ pc = "legacyFetch"
    /\ pc' = "legacySleep"
    /\ UNCHANGED <<aborted, inbox, arrived, messages, mi, ok, budget, hist, processedIds,
                   LegacyUnchanged>>

LegacyBegin_NoPolicy ==
    /\ pc = "legacyMsg"
    /\ IF mi > Len(messages)
       THEN /\ pc' = "legacySleep"
            /\ messages' = <<>>
            /\ mi' = 1
            /\ UNCHANGED <<processedIds, hist>>
       ELSE LET msg == messages[mi]
            IN IF msg \in Range(processedIds)
               THEN /\ mi' = mi + 1
                    /\ UNCHANGED <<pc, messages, processedIds, hist>>
               ELSE /\ processedIds' = AddProcessed(processedIds, msg)
                    /\ pc' = "legacyForward"
                    /\ hist' = [hist EXCEPT !.disp[msg] = "unknown"]
                    /\ UNCHANGED <<messages, mi>>
    /\ UNCHANGED <<aborted, inbox, arrived, ok, budget, LegacyUnchanged>>

\* for (const msg of messages) { if (processedIds.has(msg.id)) continue;
\*   processedIds.add(msg.id); ...; checkDeliveryPolicy(senderName, opts.config)
LegacyBegin ==
    /\ pc = "legacyMsg"
    /\ IF mi > Len(messages)
       THEN /\ pc' = "legacySleep"
            /\ messages' = <<>>
            /\ mi' = 1
            /\ UNCHANGED <<processedIds, hist>>
       ELSE LET msg == messages[mi]
            IN IF msg \in Range(processedIds)
               THEN /\ mi' = mi + 1
                    /\ UNCHANGED <<pc, messages, processedIds, hist>>
               ELSE /\ processedIds' = AddProcessed(processedIds, msg)
                    /\ IF ~checkDeliveryPolicy(SenderName(msg), CtConfig)
                       THEN /\ pc' = "legacyReject"
                            /\ hist' = [hist EXCEPT !.disp[msg] = "rejected"]
                       ELSE /\ pc' = "legacyForward"
                            /\ hist' = [hist EXCEPT !.disp[msg] = "unknown"]
                    /\ UNCHANGED <<messages, mi>>
    /\ UNCHANGED <<aborted, inbox, arrived, ok, budget, LegacyUnchanged>>

\* await markAsRead(apiKey, msg.id): the request reaches the broker, or gets an
\* error status (fetch resolves, nothing is marked), or fetch throws, which
\* ends the cycle in the catch of the loop
MarkAsRead(next) ==
    \E outcome \in {"read", "refused", "throws"} :
        /\ outcome # "read" => budget.ack > 0
        /\ inbox' = IF outcome = "read" THEN inbox \ {messages[mi]} ELSE inbox
        /\ budget' = IF outcome = "read" THEN budget ELSE [budget EXCEPT !.ack = @ - 1]
        /\ hist' = AckIssued(hist, {messages[mi]})
        /\ IF outcome = "throws"
           THEN pc' = "legacySleep" /\ messages' = <<>> /\ mi' = 1
           ELSE pc' = next /\ mi' = mi + 1 /\ UNCHANGED messages

\* if (!deliveryCheck.allowed) { await markAsRead(apiKey, msg.id); continue; }
LegacyReject ==
    /\ pc = "legacyReject"
    /\ MarkAsRead("legacyMsg")
    /\ UNCHANGED <<aborted, arrived, ok, processedIds, LegacyUnchanged>>

\* processAttachments (returns without throwing); try { await
\* forwardToActiveChannel(runtime, messageContent, opts.config, "main", ...) } catch { log }
LegacyForward ==
    /\ pc = "legacyForward"
    /\ pc' = "legacyDispatch"
    /\ UNCHANGED <<aborted, inbox, arrived, messages, mi, ok, budget, hist, processedIds,
                   LegacyUnchanged>>

LegacyDispatch_Escapes ==
    /\ pc = "legacyDispatch"
    /\ \E result \in BOOLEAN :
        /\ ok' = result
        /\ hist' = Observed(hist, messages[mi], result, FALSE)
        /\ IF result
           THEN pc' = "legacyMarkRead" /\ UNCHANGED <<messages, mi>>
           ELSE pc' = "stopped" /\ messages' = <<>> /\ mi' = 1
    /\ UNCHANGED <<aborted, inbox, arrived, budget, processedIds, LegacyUnchanged>>

\* finalizeInboundContext; await dispatchReplyWithBufferedBlockDispatcher(...):
\* returns, or throws into the catch of the loop
LegacyDispatch ==
    /\ pc = "legacyDispatch"
    /\ \E result \in BOOLEAN :
        /\ ok' = result
        /\ hist' = Observed(hist, messages[mi], result, FALSE)
        /\ IF result
           THEN pc' = "legacyMarkRead" /\ UNCHANGED <<messages, mi>>
           ELSE pc' = "legacySleep" /\ messages' = <<>> /\ mi' = 1
    /\ UNCHANGED <<aborted, inbox, arrived, budget, processedIds, LegacyUnchanged>>

\* await markAsRead(apiKey, msg.id); statusSink({ lastInboundAt })
LegacyMarkRead ==
    /\ pc = "legacyMarkRead"
    /\ MarkAsRead("legacyMsg")
    /\ UNCHANGED <<aborted, arrived, ok, processedIds, LegacyUnchanged>>

\* } catch { log; statusSink }  await new Promise(setTimeout(pollIntervalMs) | abort)
LegacySleep ==
    /\ pc = "legacySleep"
    /\ pc' = "legacyLoop"
    /\ UNCHANGED <<aborted, inbox, arrived, messages, mi, ok, budget, hist, processedIds,
                   LegacyUnchanged>>

LegacyStep ==
    \/ LegacyTop
    \/ LegacyFetch
    \/ LegacyFetchError
    \/ LegacyBegin
    \/ LegacyReject
    \/ LegacyForward
    \/ LegacyDispatch
    \/ LegacyMarkRead
    \/ LegacySleep

NextLegacy == LegacyArrive \/ LegacyAbort \/ LegacyStep

SpecLegacy == InitLegacy /\ [][NextLegacy]_vars

-----------------------------------------------------------------------------
(* sseAccountLoop: the streaming loop with its polling fallback.  One step  *)
(* of the drain is one iteration of its for loop; processAccountMessages    *)
(* runs in the context of its caller, the fallback poll or the stream.      *)

MAX_SSE_FAILURES == 3

RECONNECT_STEP_MS == 2000
RECONNECT_CAP_MS == 10000

SseUnchanged == <<probe, processedIds, tmpFile, calls>>

Min(a, b) == IF a < b THEN a ELSE b

ReconnectDelay_Flat(failures) == Min(RECONNECT_STEP_MS, RECONNECT_CAP_MS)

\* const delay = Math.min(2000 * consecutiveFailures, 10000)
ReconnectDelay(failures) == Min(RECONNECT_STEP_MS * failures, RECONNECT_CAP_MS)

\* if (!abortSignal.aborted) { const delay = ...; await sleep(delay | abort) }
Sleeping(failures) ==
    [sse EXCEPT !.delay = IF aborted THEN 0 ELSE ReconnectDelay(failures)]

\* positions inside processAccountMessages for each caller, and the position
\* the caller continues at when the call returns or throws
SseAt ==
    [fallback |-> [msg |-> "sseFbMsg", forward |-> "sseFbForward",
                   dispatch |-> "sseFbDispatch", back |-> "sseFallbackEnd"],
     stream   |-> [msg |-> "sseStMsg", forward |-> "sseStForward",
                   dispatch |-> "sseStDispatch", back |-> "sseStream"]]

InitSse ==
    /\ pc = "sseLoop"
    /\ InitData
    /\ probe = NoProbe

\* the broker stores a new message; taken where the loop next acquires messages
SseArrive ==
    \E m \in Offered \ arrived :
        /\ pc \in {"sseGate", "sseStream"}
        /\ inbox' = inbox \cup {m}
        /\ arrived' = arrived \cup {m}
        /\ UNCHANGED <<pc, aborted, queue, queued, qi, messages, mi, ackedIds, ok,
                       deadLettered, budget, hist, consecutiveFailures, sse, SseUnchanged>>

\* the host aborts; taken where the loop reads the signal
SseAbort ==
    /\ ~aborted
    /\ pc \in {"sseLoop", "sseDrain", "sseGate", "sseStream"}
    /\ aborted' = TRUE
    /\ UNCHANGED <<pc, inbox, arrived, queue, queued, qi, messages, mi, ackedIds, ok,
                   deadLettered, budget, hist, consecutiveFailures, sse, SseUnchanged>>

\* while (!abortSignal.aborted) { try { const queued = await getPending(); ...
SseTop ==
    /\ pc = "sseLoop"
    /\ IF aborted
       THEN /\ pc' = "stopped"
            /\ UNCHANGED <<queued, qi, hist>>
       ELSE /\ pc' = "sseDrain"
            /\ queued' = getPending(queue)
            /\ qi' = 1
            /\ hist' = CycleStart(hist)
    /\ UNCHANGED <<aborted, inbox, arrived, queue, messages, mi, ackedIds, ok,
                   deadLettered, budget, consecutiveFailures, sse, SseUnchanged>>

\* one iteration of for (const qm of queued): dispatchToAgent; on true the ack
\* (batchAckSse, on a throw batchAck) and dequeue; on false markAttempt and, for
\* a dead-lettered entry, the alert and the ack.  A throw of dequeue or
\* markAttempt ends the drain in its catch.
SseDrainEntry ==
    /\ pc = "sseDrain"
    /\ qi <= Len(queued) /\ ~aborted
    /\ LET id == queued[qi].id
           dl == markAttemptResult(queue, id, "dispatch failed on retry")
       IN \E result \in BOOLEAN, acked \in BOOLEAN, written \in BOOLEAN :
            LET ackCalled == result \/ (written /\ dl # <<>>)
                writes    == result \/ IsPending(queue, id)
                seen      == Observed(hist, id, result, TRUE)
                marked    == IF ~result /\ written /\ dl # <<>>
                             THEN [seen EXCEPT !.dead = @ \cup {id}, !.disp[id] = "dead",
                                               !.alerts = @ \cup
                                                   {[id        |-> id,
                                                     attempts  |-> queued[qi].attempts,
                                                     lastError |-> queued[qi].lastError]}]
                             ELSE IF ~result /\ ~written
                             THEN [seen EXCEPT !.lostMarks[id] = @ + 1]
                             ELSE seen
            IN /\ ~acked => budget.ack > 0 /\ ackCalled
               /\ ~written => budget.io > 0 /\ writes
               /\ queue' = IF ~written THEN queue
                           ELSE IF result THEN dequeue(queue, id)
                           ELSE markAttempt(queue, id, "dispatch failed on retry")
               /\ inbox' = IF ackCalled /\ acked THEN inbox \ {id} ELSE inbox
               /\ budget' = [ack |-> IF acked THEN budget.ack ELSE budget.ack - 1,
                             io  |-> IF written THEN budget.io ELSE budget.io - 1]
               /\ hist' = IF ackCalled THEN AckIssued(marked, {id}) ELSE marked
               /\ IF written
                  THEN pc' = pc /\ qi' = qi + 1 /\ UNCHANGED queued
                  ELSE pc' = "sseGate" /\ qi' = 1 /\ queued' = <<>>
    /\ UNCHANGED <<aborted, arrived, messages, mi, ackedIds, ok, deadLettered,
                   consecutiveFailures, sse, SseUnchanged>>

\* the for loop over queued ends, or breaks on abort
SseDrainEnd ==
    /\ pc = "sseDrain"
    /\ qi > Len(queued) \/ aborted
    /\ pc' = "sseGate"
    /\ queued' = <<>>
    /\ qi' = 1
    /\ UNCHANGED <<aborted, inbox, arrived, queue, messages, mi, ackedIds, ok,
                   deadLettered, budget, hist, consecutiveFailures, sse, SseUnchanged>>

\* if (consecutiveFailures >= MAX_SSE_FAILURES) { try { const messages = await
\*   pollAccountMessages(...); if (messages.length > 0) processAccountMessages(...) }
\* a throw of the poll is caught there
SseFallbackPoll ==
    /\ pc = "sseGate"
    /\ consecutiveFailures >= MAX_SSE_FAILURES
    /\ \E polled \in BOOLEAN :
        IF polled /\ inbox # {}
        THEN /\ messages' = InboxSeq(inbox)
             /\ mi' = 1
             /\ ackedIds' = <<>>
             /\ pc' = SseAt["fallback"].msg
        ELSE /\ pc' = "sseFallbackEnd"
             /\ UNCHANGED <<messages, mi, ackedIds>>
    /\ UNCHANGED <<aborted, inbox, arrived, queue, queued, qi, ok, deadLettered, budget,
                   hist, consecutiveFailures, sse, SseUnchanged>>

SseFallbackEnd_NoReset ==
    /\ pc = "sseFallbackEnd"
    /\ pc' = "sseLoop"
    /\ UNCHANGED <<aborted, inbox, arrived, queue, queued, qi, messages, mi, ackedIds, ok,
                   deadLettered, budget, hist, consecutiveFailures, sse, SseUnchanged>>

\* consecutiveFailures = 0; await sleep(pollIntervalMs | abort); continue;
SseFallbackEnd ==
    /\ pc = "sseFallbackEnd"
    /\ consecutiveFailures' = 0
    /\ pc' = "sseLoop"
    /\ UNCHANGED <<aborted, inbox, arrived, queue, queued, qi, messages, mi, ackedIds, ok,
                   deadLettered, budget, hist, sse, SseUnchanged>>

\* try { const response = await fetch(streamUrl, { signal: abortSignal }); a bad
\* status or a missing body throws; otherwise consecutiveFailures = 0.
\* catch: if (abortSignal.aborted) break; consecutiveFailures++
SseConnect ==
    /\ pc = "sseGate"
    /\ consecutiveFailures < MAX_SSE_FAILURES
    /\ IF aborted
       THEN pc' = "stopped" /\ UNCHANGED <<consecutiveFailures, sse>>
       ELSE \E connected \in BOOLEAN :
              IF connected
              THEN /\ pc' = "sseStream"
                   /\ consecutiveFailures' = 0
                   /\ UNCHANGED sse
              ELSE /\ pc' = "sseDelay"
                   /\ consecutiveFailures' = consecutiveFailures + 1
                   /\ sse' = Sleeping(consecutiveFailures + 1)
    /\ UNCHANGED <<aborted, inbox, arrived, queue, queued, qi, messages, mi, ackedIds, ok,
                   deadLettered, budget, hist, SseUnchanged>>

\* while (!abortSignal.aborted) { const { done, value } = await reader.read(); ...
\* an event "message" carries one message the broker still holds; the stream
\* ends (done); or read throws, into the same catch as the connection
SseStreamRead ==
    /\ pc = "sseStream"
    /\ IF aborted
       THEN /\ pc' \in {"stopped", "sseDelay"}
            /\ UNCHANGED <<messages, mi, ackedIds, consecutiveFailures, sse>>
       ELSE \/ \E m \in inbox :
                 /\ messages' = <<m>>
                 /\ mi' = 1
                 /\ ackedIds' = <<>>
                 /\ pc' = SseAt["stream"].msg
                 /\ UNCHANGED <<consecutiveFailures, sse>>
            \/ /\ pc' = "sseDelay"
               /\ sse' = Sleeping(consecutiveFailures)
               /\ UNCHANGED <<messages, mi, ackedIds, consecutiveFailures>>
            \/ /\ pc' = "sseDelay"
               /\ consecutiveFailures' = consecutiveFailures + 1
               /\ sse' = Sleeping(consecutiveFailures + 1)
               /\ UNCHANGED <<messages, mi, ackedIds>>
    /\ UNCHANGED <<aborted, inbox, arrived, queue, queued, qi, ok, deadLettered, budget,
                   hist, SseUnchanged>>

\* the sleep of delay ms is over (or was skipped on abort), and delay is out
\* of scope
SseDelay ==
    /\ pc = "sseDelay"
    /\ pc' = "sseLoop"
    /\ sse' = [sse EXCEPT !.delay = 0]
    /\ UNCHANGED <<aborted, inbox, arrived, queue, queued, qi, messages, mi, ackedIds, ok,
                   deadLettered, budget, hist, consecutiveFailures, SseUnchanged>>

\* processAccountMessages: for (const msg of messages) { checkDeliveryPolicy;
\*   resolveRoute; processAttachments
SseBeginMessage(ctx) ==
    /\ pc = SseAt[ctx].msg
    /\ mi <= Len(messages)
    /\ LET msg == messages[mi]
       IN IF ~checkDeliveryPolicy(SenderName(msg), CtConfig)
          THEN /\ ackedIds' = Append(ackedIds, msg)
               /\ mi' = mi + 1
               /\ hist' = [hist EXCEPT !.disp[msg] = "rejected"]
               /\ UNCHANGED pc
          ELSE /\ pc' = IF RouteOf(msg).forward THEN SseAt[ctx].forward
                        ELSE SseAt[ctx].dispatch
               /\ hist' = [hist EXCEPT !.disp[msg] = "unknown"]
               /\ UNCHANGED <<ackedIds, mi>>
    /\ UNCHANGED <<aborted, inbox, arrived, queue, queued, qi, messages, ok,
                   deadLettered, budget, consecutiveFailures, sse, SseUnchanged>>

\* if (route.forward) { try { await forwardToActiveChannel(...) } catch { log } }
SseForward(ctx) ==
    /\ pc = SseAt[ctx].forward
    /\ pc' = SseAt[ctx].dispatch
    /\ \E outcome \in ForwardOutcomes : probe' = Forwarded(messages[mi], outcome)
    /\ UNCHANGED <<aborted, inbox, arrived, queue, queued, qi, messages, mi, ackedIds, ok,
                   deadLettered, budget, hist, consecutiveFailures, sse, processedIds,
                   tmpFile, calls>>

SseDispatch_QueueMain(ctx) ==
    /\ pc = SseAt[ctx].dispatch
    /\ LET msg == messages[mi]
       IN \E result \in BOOLEAN, written \in BOOLEAN :
            LET queues == ~result
                seen   == Observed(hist, msg, result, FALSE)
            IN /\ ~written => budget.io > 0 /\ queues /\ ~IsPending(queue, msg)
               /\ IF written
                  THEN /\ queue' = IF queues THEN enqueue(queue, NewQueuedMessage(msg))
                                   ELSE queue
                       /\ hist' = IF ~queues THEN seen
                                  ELSE IF IsPending(queue, msg)
                                  THEN [seen EXCEPT !.disp[msg] = "queued"]
                                  ELSE [seen EXCEPT !.disp[msg] = "queued",
                                                    !.retryFails[msg] = 0,
                                                    !.lostMarks[msg] = 0]
                       /\ ackedIds' = IF result \/ queues THEN Append(ackedIds, msg)
                                      ELSE ackedIds
                       /\ mi' = mi + 1
                       /\ pc' = SseAt[ctx].msg
                       /\ UNCHANGED <<messages, budget>>
                  ELSE /\ pc' = SseAt[ctx].back
                       /\ messages' = <<>>
                       /\ mi' = 1
                       /\ ackedIds' = <<>>
                       /\ budget' = [budget EXCEPT !.io = @ - 1]
                       /\ hist' = seen
                       /\ UNCHANGED queue
    /\ UNCHANGED <<aborted, inbox, arrived, queued, qi, ok, deadLettered,
                   consecutiveFailures, sse, SseUnchanged>>

\* const ok = await dispatchToAgent(...); if (ok) ackedIds.push(msg.id)
\* else if (agentName !== "main") { await enqueue({...attempts: 1...});
\* ackedIds.push(msg.id) }.  A throw of enqueue leaves processAccountMessages.
SseDispatch(ctx) ==
    /\ pc = SseAt[ctx].dispatch
    /\ LET msg == messages[mi]
       IN \E result \in BOOLEAN, written \in BOOLEAN :
            LET queues == ~result /\ AgentName(msg) # "main"
                seen   == Observed(hist, msg, result, FALSE)
            IN /\ ~written => budget.io > 0 /\ queues /\ ~IsPending(queue, msg)
               /\ IF written
                  THEN /\ queue' = IF queues THEN enqueue(queue, NewQueuedMessage(msg))
                                   ELSE queue
                       /\ hist' = IF ~queues THEN seen
                                  ELSE IF IsPending(queue, msg)
                                  THEN [seen EXCEPT !.disp[msg] = "queued"]
                                  ELSE [seen EXCEPT !.disp[msg] = "queued",
                                                    !.retryFails[msg] = 0,
                                                    !.lostMarks[msg] = 0]
                       /\ ackedIds' = IF result \/ queues THEN Append(ackedIds, msg)
                                      ELSE ackedIds
                       /\ mi' = mi + 1
                       /\ pc' = SseAt[ctx].msg
                       /\ UNCHANGED <<messages, budget>>
                  ELSE /\ pc' = SseAt[ctx].back
                       /\ messages' = <<>>
                       /\ mi' = 1
                       /\ ackedIds' = <<>>
                       /\ budget' = [budget EXCEPT !.io = @ - 1]
                       /\ hist' = seen
                       /\ UNCHANGED queue
    /\ UNCHANGED <<aborted, inbox, arrived, queued, qi, ok, deadLettered,
                   consecutiveFailures, sse, SseUnchanged>>

\* if (ackedIds.length > 0) { try { batchAckSse } catch { try { batchAck } catch {} } }
SseAck(ctx) ==
    /\ pc = SseAt[ctx].msg
    /\ mi > Len(messages)
    /\ IF ackedIds = <<>>
       THEN /\ probe' = AckCalls(<<>>, <<>>)
            /\ UNCHANGED <<inbox, budget, hist>>
       ELSE \* batchAckSse returns or throws; when it throws, batchAck is called
            \* and returns (acked) or throws as well
            /\ \E sseAcked, acked \in BOOLEAN :
                /\ sseAcked => acked
                /\ ~acked => budget.ack > 0
                /\ inbox' = IF acked THEN inbox \ Range(ackedIds) ELSE inbox
                /\ budget' = IF acked THEN budget ELSE [budget EXCEPT !.ack = @ - 1]
                /\ probe' = AckCalls(ackedIds, IF sseAcked THEN <<TRUE>> ELSE <<FALSE, acked>>)
            /\ hist' = AckIssued(hist, Range(ackedIds))
    /\ pc' = SseAt[ctx].back
    /\ messages' = <<>>
    /\ mi' = 1
    /\ ackedIds' = <<>>
    /\ UNCHANGED <<aborted, arrived, queue, queued, qi, ok, deadLettered,
                   consecutiveFailures, sse, processedIds, tmpFile, calls>>

SseFallbackProcess ==
    \/ SseBeginMessage("fallback")
    \/ SseForward("fallback")
    \/ SseDispatch("fallback")
    \/ SseAck("fallback")

SseStreamProcess ==
    \/ SseBeginMessage("stream")
    \/ SseForward("stream")
    \/ SseDispatch("stream")
    \/ SseAck("stream")

SseStep ==
    \/ SseTop
    \/ SseDrainEntry
    \/ SseDrainEnd
    \/ SseFallbackPoll
    \/ SseFallbackProcess
    \/ SseFallbackEnd
    \/ SseConnect
    \/ SseStreamRead
    \/ SseStreamProcess
    \/ SseDelay

NextSse == SseArrive \/ SseAbort \/ SseStep

SpecSse == InitSse /\ [][NextSse]_vars

-----------------------------------------------------------------------------
(* pollClawTellInbox: the account is resolved from its configuration and    *)
(* one of the three loops is run.                                           *)

DEFAULT_SSE_URL == "https://clawtell-sse.fly.dev"

\* accountConfig: every key may be missing (<<>>); a present sseUrl may be
\* falsy (null, false, ""), written ""
AccountConfigs ==
    [name        : {<<>>, <<"alice">>},
     apiKey      : {<<>>, <<AccountApiKey>>},
     routing     : {<<>>, <<Routing>>},
     pollAccount : {<<>>, <<TRUE>>, <<FALSE>>},
     sseUrl      : {<<>>, <<"">>, <<"https://sse.example">>}]

\* resolveClawTellAccount: the fields the choice of the loop reads;
\* tellName and apiKey are "" for null, sseUrl is "" for null
resolveClawTellAccount(accountConfig) ==
    [tellName    |-> Coalesce(accountConfig.name, ""),
     apiKey      |-> Coalesce(accountConfig.apiKey, ""),
     pollAccount |-> Coalesce(accountConfig.pollAccount, accountConfig.routing # <<>>),
     sseUrl      |-> IF accountConfig.sseUrl # <<>> THEN accountConfig.sseUrl[1]
                     ELSE DEFAULT_SSE_URL,
     routing     |-> IF accountConfig.routing # <<>> THEN accountConfig.routing[1]
                     ELSE IF accountConfig.name # <<>>
                             /\ ~Coalesce(accountConfig.pollAccount, FALSE)
                     THEN [n \in {accountConfig.name[1]} |-> Route("main", TRUE, "")]
                     ELSE <<>>]

\* the loop pollClawTellInbox awaits for the account: the position its first
\* cycle starts at ("failed": the call throws before any loop)
LoopOf(account) ==
    IF account.apiKey = "" THEN "failed"
    ELSE IF account.sseUrl # "" THEN "sseLoop"
    ELSE IF account.pollAccount THEN "loop"
    ELSE "legacyLoop"

InitGateway ==
    /\ pc = "start"
    /\ InitData
    /\ \E accountConfig \in AccountConfigs :
          probe = [op |-> "pollClawTellInbox", config |-> accountConfig]

\* gateway.startAccount: pollClawTellInbox({ account, ... }): a missing apiKey
\* throws; otherwise statusSink({ running: true, ... }) and the loop is awaited
\* (the reports are kept where the run records them)
Start ==
    /\ pc = "start"
    /\ pc' = LoopOf(resolveClawTellAccount(probe.config))
    /\ probe' = IF "status" \in DOMAIN probe
                THEN [op |-> "running", msgs |-> probe.msgs,
                      status |-> IF probe.config.apiKey = <<>> THEN <<>> ELSE <<TRUE>>]
                ELSE NoProbe
    /\ UNCHANGED <<aborted, inbox, arrived, queue, queued, qi, messages, mi, ackedIds, ok,
                   deadLettered, budget, hist, OtherState>>

\* the account's loop, whichever of the three pollClawTellInbox chose
NextGateway == Start \/ Next \/ NextSse \/ NextLegacy

SpecGateway == InitGateway /\ [][NextGateway]_vars

-----------------------------------------------------------------------------
(* Claims about the three loops                                             *)

\* positions at which the loop holds messages[mi] past the delivery policy
PastPolicy ==
    {"forward", "dispatch", "dispose", "enqueue", "enqueued",
     "sseFbForward", "sseFbDispatch", "sseStForward", "sseStDispatch",
     "legacyForward", "legacyDispatch", "legacyMarkRead"}

\* positions at which the loop is about to apply the policy to messages[mi]
AtPolicy == {"msg", "sseFbMsg", "sseStMsg", "legacyMsg"}

\* the loop is about to reject messages[mi]
Rejecting ==
    /\ pc \in AtPolicy
    /\ mi <= Len(messages)
    /\ ~Accepted(messages[mi])
    /\ pc = "legacyMsg" => messages[mi] \notin Range(processedIds)

\* C11: a message the delivery policy rejects is acknowledged (account and
\* streaming loops: its id is appended to the cycle's ack batch in the step
\* that rejects it; legacy loop: the next step is the markAsRead call for it)
\* and nothing else is done with it: no route is resolved for it, it is at no
\* position past the policy check (forward, dispatch), no dispatch was ever
\* observed for it, and it is neither in the queue nor in a retry drain.
C11_RejectedOnlyAcknowledged ==
    /\ [](pc \in PastPolicy => mi <= Len(messages) /\ Accepted(messages[mi]))
    /\ [](\A m \in Msgs : ~Accepted(m) =>
            /\ hist.disp[m] \in {"none", "rejected"}
            /\ m \notin hist.delivered \cup hist.mainFailed \cup hist.dead
            /\ hist.fails[m] = 0 /\ hist.retryFails[m] = 0
            /\ ~IsPending(queue, m)
            /\ \A i \in 1..Len(queued) : queued[i].id # m)
    /\ [](pc = "legacyReject" => mi <= Len(messages) /\ ~Accepted(messages[mi]))
    /\ [][Rejecting =>
            /\ hist'.disp[messages[mi]] = "rejected"
            /\ IF pc = "legacyMsg"
               THEN pc' = "legacyReject" /\ mi' = mi /\ messages' = messages
               ELSE ackedIds' = Append(ackedIds, messages[mi]) /\ pc' = pc]_vars
    /\ [][pc = "legacyReject" =>
            <<messages[mi], "rejected">> \in hist'.ackLog]_vars

\* the legacy loop has rejected m3 and its markAsRead call has reached the
\* broker: m3 left the inbox
C11_Witness ==
    /\ ~Accepted("m3")
    /\ <<"m3", "rejected">> \in hist.ackLog
    /\ "m3" \in arrived /\ "m3" \notin inbox
    /\ "m3" \in Range(processedIds)

-----------------------------------------------------------------------------
(* Replies: the deliver callbacks the loops hand to the dispatcher, and the *)
(* keys they send with, from the first dispatch and from a queue retry.     *)

\* replies recorded for one message
MaxReplies == 2

\* configurations of one account "alice" with any routing table
ReplyConfigs ==
    [name        : {<<"alice">>},
     apiKey      : {<<AccountApiKey>>},
     routing     : {<<>>} \cup {<<routing>> : routing \in RoutingTables},
     pollAccount : {<<>>, <<TRUE>>, <<FALSE>>},
     sseUrl      : {<<>>, <<"">>}]

\* const agentName = route.agent || "main"
AgentOf(route) ==
    IF "agent" \in DOMAIN route /\ route.agent # "" THEN route.agent ELSE "main"

\* deliver of dispatchToAgent: POST /messages/send
deliver(replyApiKey, params) ==
    [authorization |-> replyApiKey,
     to            |-> params.senderName,
     from_name     |-> <<params.toName>>]

\* deliver of pollLegacyLoop: POST /messages/send, without from_name
legacyDeliver(apiKey, senderName) ==
    [authorization |-> apiKey,
     to            |-> senderName,
     from_name     |-> <<>>]

QueuedMessageFor_NoReplyKey(id, senderName, toName, route, apiKey) ==
    [id          |-> id,
     from        |-> senderName,
     toName      |-> toName,
     agent       |-> AgentOf(route),
     forward     |-> "forward" \in DOMAIN route /\ route.forward,
     attempts    |-> 1,
     lastError   |-> "initial dispatch failed",
     apiKey      |-> apiKey,
     replyApiKey |-> ""]

\* the QueuedMessage processAccountMessages and pollAccountLoop enqueue
QueuedMessageFor(id, senderName, toName, route, apiKey) ==
    [id          |-> id,
     from        |-> senderName,
     toName      |-> toName,
     agent       |-> AgentOf(route),
     forward     |-> "forward" \in DOMAIN route /\ route.forward,
     attempts    |-> 1,
     lastError   |-> "initial dispatch failed",
     apiKey      |-> apiKey,
     replyApiKey |-> IF resolveReplyKey(route, apiKey) # apiKey
                     THEN resolveReplyKey(route, apiKey) ELSE ""]

\* a message from bob is at hand; in the legacy loop it is one of the inbox
\* of account.tellName, in the other loops msg.to_name is any name
InitReply ==
    /\ InitEngine
    /\ \E accountConfig \in ReplyConfigs, toName \in RecipientNames :
         LET account == resolveClawTellAccount(accountConfig)
         IN /\ LoopOf(account) = "legacyLoop" => toName = account.tellName
            /\ probe = [op      |-> "reply",
                        account |-> account,
                        loop    |-> LoopOf(account),
                        msgId   |-> "m1",
                        from    |-> SenderName("m1"),
                        toName  |-> toName,
                        stage   |-> "received",
                        sent    |-> <<>>,
                        first   |-> <<>>,
                        retry   |-> <<>>,
                        ack     |-> <<>>]

\* the first dispatch in processAccountMessages / pollAccountLoop; the
\* consumer replies through deliver, or does not, before the call returns
ReplyDispatch ==
    /\ probe.op = "reply" /\ probe.stage = "received"
    /\ probe.loop # "legacyLoop"
    /\ LET apiKey   == probe.account.apiKey
           route    == resolveRoute(probe.toName, probe.account.routing)
           replyKey == resolveReplyKey(route, apiKey)
           params   == [senderName |-> probe.from, toName |-> probe.toName]
       IN \E replies \in BOOLEAN, result \in BOOLEAN :
            /\ probe' = [probe EXCEPT
                           !.sent = IF replies THEN Append(@, deliver(replyKey, params))
                                    ELSE @,
                           !.first = <<[apiKey |-> apiKey, replyApiKey |-> replyKey]>>,
                           !.stage = IF ~result /\ AgentOf(route) # "main"
                                     THEN "queued" ELSE "done"]
            /\ queue' = IF ~result /\ AgentOf(route) # "main"
                        THEN enqueue(queue, QueuedMessageFor(probe.msgId, probe.from,
                                                             probe.toName, route, apiKey))
                        ELSE queue
    /\ UNCHANGED EngineVars

\* the retry of the drain: dispatchToAgent(runtime, opts, qm.apiKey,
\* qm.replyApiKey || qm.apiKey, { senderName: qm.from, toName: qm.toName, ... }),
\* then batchAck(qm.apiKey, [qm.id]) and dequeue on success, markAttempt on
\* failure and batchAck(qm.apiKey, [qm.id]) when that dead-lettered the entry
ReplyRetry ==
    /\ probe.op = "reply" /\ probe.stage = "queued"
    /\ LET qm       == getPending(queue)[1]
           replyKey == IF qm.replyApiKey # "" THEN qm.replyApiKey ELSE qm.apiKey
           params   == [senderName |-> qm.from, toName |-> qm.toName]
       IN \E replies \in BOOLEAN, result \in BOOLEAN :
            /\ replies => Len(probe.sent) < MaxReplies
            /\ queue' = IF result THEN dequeue(queue, qm.id)
                        ELSE markAttempt(queue, qm.id, "dispatch failed on retry")
            /\ probe' = [probe EXCEPT
                           !.sent = IF replies THEN Append(@, deliver(replyKey, params))
                                    ELSE @,
                           !.retry = <<[apiKey |-> qm.apiKey, replyApiKey |-> replyKey]>>,
                           !.ack = IF result \/ markAttemptResult(queue, qm.id,
                                                    "dispatch failed on retry") # <<>>
                                   THEN <<[apiKey |-> qm.apiKey, ids |-> <<qm.id>>]>>
                                   ELSE @,
                           !.stage = IF getPending(queue') = <<>> THEN "done" ELSE @]
    /\ UNCHANGED EngineVars

\* the dispatch of pollLegacyLoop
ReplyLegacy ==
    /\ probe.op = "reply" /\ probe.stage = "received"
    /\ probe.loop = "legacyLoop"
    /\ \E replies \in BOOLEAN :
         probe' = [probe EXCEPT
                     !.sent = IF replies
                              THEN Append(@, legacyDeliver(probe.account.apiKey, probe.from))
                              ELSE @,
                     !.stage = "done"]
    /\ UNCHANGED <<EngineVars, queue>>

NextReply == ReplyDispatch \/ ReplyRetry \/ ReplyLegacy

SpecReply == InitReply /\ [][NextReply]_vars

\* the route of the message the replies are for, and the key the claim names
ReplyRoute == resolveRoute(probe.toName, probe.account.routing)

RouteHasKey == "apiKey" \in DOMAIN ReplyRoute /\ ReplyRoute.apiKey # ""

ReplyCredential == IF RouteHasKey THEN ReplyRoute.apiKey ELSE probe.account.apiKey

ViaDispatchToAgent(r) ==
    /\ r.to = probe.from
    /\ r.from_name = <<probe.toName>>
    /\ r.authorization = ReplyCredential

\* C12 as stated: every reply, whichever loop sent it, goes to the sender
\* with from_name = the recipient identity and with the route's own key when
\* the route has one, the account key otherwise.
C12_AsStated ==
    \A i \in 1..Len(probe.sent) : ViaDispatchToAgent(probe.sent[i])

\* C12: every reply sent through dispatchToAgent (account-polling and
\* streaming loops, first dispatch and queue retries) goes to the original
\* sender with from_name = the message's recipient identity, with the route's
\* own apiKey when the route has one and the account apiKey otherwise; a reply
\* of the legacy loop goes to the original sender with the account apiKey and
\* without from_name, whatever the routing table holds.
C12_ReplyCredential ==
    \A i \in 1..Len(probe.sent) :
        IF probe.loop = "legacyLoop"
        THEN probe.sent[i] = [authorization |-> probe.account.apiKey,
                              to |-> probe.from, from_name |-> <<>>]
        ELSE ViaDispatchToAgent(probe.sent[i])

\* a retry from the queue has replied for a message whose route has its own key
C12_Witness ==
    /\ probe.loop # "legacyLoop"
    /\ RouteHasKey
    /\ Len(probe.sent) = 2
    /\ probe.sent[2].authorization = ReplyRoute.apiKey
    /\ probe.sent[2].authorization # probe.account.apiKey
    /\ probe.stage = "done"

-----------------------------------------------------------------------------
\* C25 -- Reply credential survives queueing: the reply credential passed to
\* dispatchToAgent on a retry from the queue equals the one passed at the first
\* dispatch of the message, which is the route's own key when the route has one
\* and the account key otherwise; the account key passed on the retry, and the
\* key of the ack call for the retried message, are the account key that was
\* stored with the entry.
C25_ReplyKeySurvivesQueue ==
    /\ probe.first # <<>> =>
          /\ probe.first[1].replyApiKey = ReplyCredential
          /\ probe.first[1].apiKey = probe.account.apiKey
    /\ probe.retry # <<>> =>
          /\ probe.first # <<>>
          /\ probe.retry[1] = probe.first[1]
    /\ probe.ack # <<>> =>
          /\ probe.retry # <<>>
          /\ probe.ack[1].apiKey = probe.account.apiKey
          /\ probe.ack[1].ids = <<probe.msgId>>
    /\ \A i \in 1..Len(queue.pending) : queue.pending[i].apiKey = probe.account.apiKey

\* a queued message whose route has a key of its own, different from the
\* account's, was retried with success and acknowledged
C25_Witness ==
    /\ probe.op = "reply"
    /\ probe.retry # <<>>
    /\ probe.retry[1].replyApiKey # probe.account.apiKey
    /\ probe.ack # <<>>
    /\ queue.pending = <<>>
    /\ queue.deadLetter = <<>>

-----------------------------------------------------------------------------
\* positions of the fallback cycle of sseAccountLoop
InFallback == {"sseFbMsg", "sseFbForward", "sseFbDispatch", "sseFallbackEnd"}

\* the step that acquires messages, or tries to: one fallback poll or one
\* connection attempt
Acquires == pc = "sseGate" /\ pc' # "sseGate"

\* C13: in sseAccountLoop the acquisition of a cycle is a fallback poll exactly
\* when consecutiveFailures has reached 3 (it never exceeds 3), and a stream
\* connection otherwise; a fallback is one poll: from its positions the loop
\* only goes on to the end of the fallback, where the counter becomes 0 and the
\* loop starts its next cycle, whose acquisition is therefore a connection;
\* every successful connection sets the counter to 0, and nothing else changes
\* the counter but a failed connection or a failed read, which add one.
C13_StreamingFailover ==
    /\ [](consecutiveFailures \in 0..MAX_SSE_FAILURES)
    /\ [](pc \in InFallback => consecutiveFailures = MAX_SSE_FAILURES)
    /\ [][Acquires =>
            IF consecutiveFailures = MAX_SSE_FAILURES
            THEN pc' \in InFallback /\ consecutiveFailures' = consecutiveFailures
            ELSE pc' \in {"sseStream", "sseDelay", "stopped"}]_vars
    /\ [][(pc \in InFallback /\ pc' \notin InFallback) =>
            pc = "sseFallbackEnd" /\ pc' = "sseLoop" /\ consecutiveFailures' = 0]_vars
    /\ [][pc = "sseGate" /\ pc' = "sseStream" => consecutiveFailures' = 0]_vars
    /\ [][consecutiveFailures' # consecutiveFailures =>
            \/ pc = "sseFallbackEnd" /\ consecutiveFailures' = 0
            \/ pc = "sseGate" /\ pc' = "sseStream" /\ consecutiveFailures' = 0
            \/ /\ pc \in {"sseGate", "sseStream"} /\ pc' = "sseDelay"
               /\ consecutiveFailures' = consecutiveFailures + 1]_vars

\* a fallback cycle after three failures has polled m1 and dispatched it
\* (m1 is for the default consumer: it is never in the retry drain)
C13_Witness ==
    /\ pc = "sseFallbackEnd"
    /\ consecutiveFailures = MAX_SSE_FAILURES
    /\ hist.disp["m1"] = "ok"
    /\ "m1" \notin inbox

-----------------------------------------------------------------------------
\* an existing single-name configuration: name and apiKey, nothing else
SingleNameConfig(accountConfig) ==
    /\ accountConfig.name # <<>>
    /\ accountConfig.apiKey # <<>>
    /\ accountConfig.routing = <<>>
    /\ accountConfig.pollAccount = <<>>
    /\ accountConfig.sseUrl = <<>>

\* C14: pollClawTellInbox runs an account whose configuration holds a name and
\* an apiKey, no routing, no pollAccount and no sseUrl in pollLegacyLoop.
C14_SingleNameRunsLegacy ==
    [][(pc = "start" /\ SingleNameConfig(probe.config)) => pc' = "legacyLoop"]_vars

-----------------------------------------------------------------------------
\* the while tests of the three loops, and their inter-cycle delays
LoopTops == {"loop", "sseLoop", "legacyLoop"}

Delays == {"sleep", "sseDelay", "sseFallbackEnd", "legacySleep"}

\* a step of the loop that runs
AnyLoopStep == LoopStep \/ SseStep \/ LegacyStep

\* C15: whatever throws in a cycle, the loop ends only on the abort signal:
\* it is at its end only if the signal is set, everywhere else it has a next
\* step, a new cycle begins only after the inter-cycle delay (or at the start
\* of the loop), and the delay is followed by the while test of the next cycle,
\* which without the abort signal enters the cycle.
C15_LoopSurvivesErrors ==
    /\ [](pc = "stopped" => aborted)
    /\ [](pc \notin {"start", "failed", "stopped"} => ENABLED AnyLoopStep)
    /\ [][(pc' \in LoopTops /\ pc' # pc) => pc \in Delays \cup {"start"}]_vars
    /\ [][(pc \in Delays /\ pc' # pc) => pc' \in LoopTops]_vars
    /\ [][(pc \in LoopTops /\ pc' # pc /\ ~aborted) =>
            pc' \in {"drain", "sseDrain", "legacyFetch"}]_vars

\* a failed ack, a failed queue write and failed connections lie behind, the
\* abort signal is not set, and the streaming loop is about to run a cycle
C15_Witness ==
    /\ ~aborted
    /\ pc = "sseLoop"
    /\ budget = [ack |-> 0, io |-> 0]
    /\ consecutiveFailures > 0
    /\ hist.mainFailed # {}

-----------------------------------------------------------------------------
(* The queue file, inbox-queue.json, under the calls of the loops: each     *)
(* call of enqueue, dequeue and markAttempt is a readFile, the change of    *)
(* the parsed contents, a writeFile of QUEUE_PATH + ".tmp" (open with       *)
(* truncation, then the bytes) and a rename; the awaits between them let    *)
(* the calls of another account's loop in the same process run.  queue is   *)
(* the contents of the file, tmpFile those of the temp file, calls the      *)
(* calls in flight.                                                         *)

StoreUnchanged == <<pc, aborted, inbox, arrived, queued, qi, messages, mi, ackedIds, ok,
                    deadLettered, budget, hist, processedIds, consecutiveFailures, sse>>

\* a file that was opened for writing and does not hold a whole document
Partial == [partial |-> TRUE]

\* readQueue: JSON.parse of the file, { pending: [], deadLetter: [] } when
\* readFile or the parse throws
readQueue(file) == IF "pending" \in DOMAIN file THEN file ELSE EmptyQueue

Accounts == {"acct1", "acct2"}

\* calls of enqueue, dequeue and markAttempt followed from the start
MaxCalls == 4

\* the same for the loop of a single account, enough for an entry to be
\* dead-lettered
MaxCrashCalls == 11

\* ids of the messages the broker holds for an account
AccountMsgs(a) == IF a = "acct1" THEN {"a1", "a2"} ELSE {"b1"}

\* the QueuedMessage the loop of account a enqueues for id
AccountMessage(a, id) ==
    [id          |-> id,
     from        |-> Str("", "bob", FALSE),
     toName      |-> "helper-bot",
     agent       |-> "helper",
     forward     |-> TRUE,
     attempts    |-> 1,
     lastError   |-> "initial dispatch failed",
     accountId   |-> a,
     apiKey      |-> a,
     replyApiKey |-> ""]

InFlight(a) == \E i \in 1..Len(calls) : calls[i].account = a

CallOf(a) == CHOOSE i \in 1..Len(calls) : calls[i].account = a

Without(a) == SelectSeq(calls, LAMBDA c : c.account # a)

\* the ids whose pending entry the owner put there and has not taken out
Returned(c) ==
    IF c.op = "enqueue" THEN probe.owned \cup {c.id} ELSE probe.owned

\* the loops of two accounts in one process
InitStore ==
    /\ InitEngine
    /\ probe = [op |-> "store", accounts |-> Accounts, maxCalls |-> MaxCalls,
                owned |-> {}, dispatched |-> {}, started |-> 0]

\* await enqueue({ id, ..., accountId: account.accountId, apiKey }) is called
\* after a failed first dispatch
StoreEnqueue(a) ==
    /\ ~InFlight(a)
    /\ probe.started < probe.maxCalls
    /\ \E id \in AccountMsgs(a) :
          /\ id \notin probe.owned
          /\ calls' = Append(calls, [account |-> a, op |-> "enqueue", id |-> id,
                                     stage |-> "called", target |-> "tmp",
                                     before |-> EmptyQueue, after |-> EmptyQueue])
    /\ probe' = [probe EXCEPT !.started = @ + 1]
    /\ UNCHANGED <<queue, tmpFile, StoreUnchanged>>

\* the retry drain of account a: const queued = await getPending(); for each qm
\* dispatchToAgent(runtime, opts, qm.apiKey, ...) and then dequeue(qm.id) or
\* markAttempt(qm.id, ...)
StoreDrain(a) ==
    /\ ~InFlight(a)
    /\ probe.started < probe.maxCalls
    /\ \E i \in 1..Len(getPending(readQueue(queue))), result \in BOOLEAN :
         LET qm == getPending(readQueue(queue))[i]
         IN /\ calls' = Append(calls, [account |-> a,
                                       op |-> IF result THEN "dequeue" ELSE "markAttempt",
                                       id |-> qm.id,
                                       stage |-> "called", target |-> "tmp",
                                       before |-> EmptyQueue, after |-> EmptyQueue])
            /\ probe' = [probe EXCEPT
                           !.dispatched = @ \cup {[by |-> a, accountId |-> qm.accountId]},
                           !.owned = IF qm.accountId = a THEN @ \ {qm.id} ELSE @,
                           !.started = @ + 1]
    /\ UNCHANGED <<queue, tmpFile, StoreUnchanged>>

\* const queue = await readQueue(), and the change of the parsed contents;
\* enqueue returns at once for an id that is pending, markAttempt for one that
\* is not
StoreRead(a) ==
    /\ InFlight(a)
    /\ LET c == calls[CallOf(a)]
           q == readQueue(queue)
       IN /\ c.stage = "called"
          /\ IF (c.op = "enqueue" /\ IsPending(q, c.id))
                \/ (c.op = "markAttempt" /\ ~IsPending(q, c.id))
             THEN /\ calls' = Without(a)
                  /\ probe' = [probe EXCEPT !.owned = Returned(c)]
             ELSE /\ calls' = [calls EXCEPT ![CallOf(a)] =
                                 [c EXCEPT !.stage = "read",
                                           !.before = q,
                                           !.after =
                                              IF c.op = "enqueue"
                                              THEN enqueue(q, AccountMessage(a, c.id))
                                              ELSE IF c.op = "dequeue"
                                              THEN dequeue(q, c.id)
                                              ELSE markAttempt(q, c.id,
                                                       "dispatch failed on retry")]]
                  /\ UNCHANGED probe
    /\ UNCHANGED <<queue, tmpFile, StoreUnchanged>>

StoreOpen_InPlace(a) ==
    /\ InFlight(a)
    /\ calls[CallOf(a)].stage = "read"
    /\ calls' = [calls EXCEPT ![CallOf(a)].stage = "opened", ![CallOf(a)].target = "queue"]
    /\ queue' = Partial
    /\ UNCHANGED <<tmpFile, probe, StoreUnchanged>>

\* fs.writeFile(tmp, ...) opens the temp file and truncates it
StoreOpen(a) ==
    /\ InFlight(a)
    /\ calls[CallOf(a)].stage = "read"
    /\ calls' = [calls EXCEPT ![CallOf(a)].stage = "opened", ![CallOf(a)].target = "tmp"]
    /\ tmpFile' = <<Partial>>
    /\ UNCHANGED <<queue, probe, StoreUnchanged>>

\* fs.writeFile writes the document to the file it opened, which is the queue
\* file by now if another call renamed the temp file meanwhile; with a second
\* writer on the same file the bytes of the two may mix
StoreWrite(a) ==
    /\ InFlight(a)
    /\ LET c == calls[CallOf(a)]
           clash == \E i \in 1..Len(calls) :
                       /\ calls[i].account # a
                       /\ calls[i].stage = "opened"
                       /\ calls[i].target = c.target
       IN /\ c.stage = "opened"
          /\ \E content \in {c.after} \cup (IF clash THEN {Partial} ELSE {}) :
                IF c.target = "tmp"
                THEN tmpFile' = <<content>> /\ UNCHANGED queue
                ELSE queue' = content /\ UNCHANGED tmpFile
    /\ calls' = [calls EXCEPT ![CallOf(a)].stage = "written"]
    /\ UNCHANGED <<probe, StoreUnchanged>>

\* fs.rename(tmp, QUEUE_PATH), and the return of the call; rename throws when
\* another call has renamed the temp file away
StoreRename(a) ==
    /\ InFlight(a)
    /\ LET c == calls[CallOf(a)]
       IN /\ c.stage = "written"
          /\ IF tmpFile = <<>>
             THEN /\ calls' = Without(a)
                  /\ UNCHANGED <<queue, tmpFile, probe>>
             ELSE /\ queue' = tmpFile[1]
                  /\ tmpFile' = <<>>
                  /\ calls' = [i \in 1..Len(Without(a)) |->
                                 IF Without(a)[i].stage = "opened"
                                 THEN [Without(a)[i] EXCEPT !.target = "queue"]
                                 ELSE Without(a)[i]]
                  /\ probe' = [probe EXCEPT !.owned = Returned(c)]
    /\ UNCHANGED StoreUnchanged

StoreStep(a) ==
    \/ StoreEnqueue(a)
    \/ StoreDrain(a)
    \/ StoreRead(a)
    \/ StoreOpen(a)
    \/ StoreWrite(a)
    \/ StoreRename(a)

NextStore == \E a \in probe.accounts : StoreStep(a)

SpecStore == InitStore /\ [][NextStore]_vars

\* C16: with the loops of two accounts running in one process, a pending entry
\* an account's enqueue has returned for stays pending until that account
\* takes it out, and a retry drain dispatches only entries of its own account.
C16_AccountIsolation ==
    /\ \A id \in probe.owned : IsPending(readQueue(queue), id)
    /\ \A d \in probe.dispatched : d.by = d.accountId

-----------------------------------------------------------------------------
(* The queue file of one loop across a crash of the process *)

InitCrash ==
    /\ InitEngine
    /\ probe = [op |-> "store", accounts |-> {"acct1"}, maxCalls |-> MaxCrashCalls,
                owned |-> {}, dispatched |-> {}, started |-> 0]

\* the process dies: the calls in flight are gone, the files stay as they are
Crash ==
    /\ calls # <<>>
    /\ calls' = <<>>
    /\ UNCHANGED <<queue, tmpFile, probe, StoreUnchanged>>

NextCrash == NextStore \/ Crash

SpecCrash == InitCrash /\ [][NextCrash]_vars

\* C17: at every point of an enqueue, dequeue or markAttempt of the loop, and
\* so after a crash at that point, the queue file holds a whole document, which
\* is the state the call read until the rename and the state the call computed
\* from it after the rename; readQueue returns it.
C17_CrashAtomicity ==
    /\ []("pending" \in DOMAIN queue /\ readQueue(queue) = queue)
    /\ [](\A i \in 1..Len(calls) :
            calls[i].stage \in {"read", "opened", "written"} => queue = calls[i].before)
    /\ [][queue' # queue =>
            \E i \in 1..Len(calls) :
                /\ calls[i].stage = "written"
                /\ queue = calls[i].before
                /\ queue' = calls[i].after]_vars
    /\ [][(calls # <<>> /\ calls' = <<>>) =>
            \A i \in 1..Len(calls) :
                IF calls[i].stage = "called" THEN queue' = queue
                ELSE queue' \in {calls[i].before, calls[i].after}]_vars

\* the process died while a dead-lettering markAttempt was writing the temp
\* file: the temp file is partial, the queue file still holds the entry
C17_Witness ==
    /\ calls = <<>>
    /\ tmpFile = <<Partial>>
    /\ \E i \in 1..Len(queue.pending) : queue.pending[i].attempts = MAX_ATTEMPTS - 1
    /\ queue.deadLetter = <<>>

-----------------------------------------------------------------------------
(* Attachments: resolveAttachment and the loop of processAttachments *)

MAX_ATTACHMENT_BYTES == 20 * 1024 * 1024

\* attachments of one message
MaxAttachments == 2

\* body sizes around the cap
BodySizes == {1, MAX_ATTACHMENT_BYTES, MAX_ATTACHMENT_BYTES + 1}

\* the content-length header of the download: absent (<<>>), or a string that
\* starts with the digits of a number or with none, and may go on with other
\* characters
ContentLengthHeaders ==
    {<<>>} \cup {<<[digits |-> d, rest |-> r]>> :
                    d \in {<<>>} \cup {<<n>> : n \in BodySizes}, r \in {"", "abc"}}

\* the step of resolveAttachment that fails, if one does
AttachmentFailures == {"none", "fileId", "signedUrl", "download", "write"}

\* parseInt(s, 10): the number the leading digits spell, NaN (<<>>) without any
parseInt(s) == s.digits

\* parseInt(dlResp.headers.get("content-length") || "0", 10)
ContentLength(header) ==
    IF header = <<>> \/ (header[1].digits = <<>> /\ header[1].rest = "") THEN <<0>>
    ELSE parseInt(header[1])

TooLarge_AtCap(n) == n >= MAX_ATTACHMENT_BYTES

\* n > MAX_ATTACHMENT_BYTES
TooLarge(n) == n > MAX_ATTACHMENT_BYTES

\* path.join(tmpDir, `${safeFileId}_${safeName}`)
LocalPath(attachment) == <<attachment.fileId, attachment.filename>>

\* resolveAttachment(apiKey, attachment): the value returned (<<>> for null)
\* and whether fs.writeFile(localPath, buffer) was called and wrote the file;
\* a comparison with NaN is false
resolveAttachment(attachment) ==
    LET contentLength == ContentLength(attachment.header)
        null == [result |-> <<>>, written |-> FALSE]
    IN IF attachment.fails \in {"fileId", "signedUrl", "download"} THEN null
       ELSE IF contentLength # <<>> /\ TooLarge(contentLength[1]) THEN null
       ELSE IF TooLarge(attachment.size) THEN null
       ELSE IF attachment.fails = "write" THEN null
       ELSE [result  |-> <<[filename  |-> attachment.filename,
                            localPath |-> LocalPath(attachment)]>>,
             written |-> TRUE]

InitAttach ==
    /\ InitEngine
    /\ probe = [op |-> "processAttachments", n |-> 0, attachment |-> <<>>,
                resolved |-> <<>>, staged |-> {}]

\* a resolved attachment is put in front of the list
ResolveNext_Prepends ==
    /\ probe.op = "processAttachments"
    /\ probe.n < MaxAttachments
    /\ \E fails \in AttachmentFailures, header \in ContentLengthHeaders, size \in BodySizes :
         LET att == [fileId   |-> probe.n + 1,
                     filename |-> "file",
                     fails    |-> fails,
                     header   |-> header,
                     size     |-> size]
             r == resolveAttachment(att)
         IN probe' = [probe EXCEPT
                        !.n = @ + 1,
                        !.attachment = <<att>>,
                        !.resolved = IF r.result # <<>> THEN <<r.result[1]>> \o @ ELSE @,
                        !.staged = IF r.written THEN @ \cup {LocalPath(att)} ELSE @]
    /\ UNCHANGED <<EngineVars, queue>>

\* one iteration of for (const att of rawAttachments) in processAttachments:
\* const r = await resolveAttachment(apiKey, att); if (r) resolved.push(r)
ResolveNext ==
    /\ probe.op = "processAttachments"
    /\ probe.n < MaxAttachments
    /\ \E fails \in AttachmentFailures, header \in ContentLengthHeaders, size \in BodySizes :
         LET att == [fileId   |-> probe.n + 1,
                     filename |-> "file",
                     fails    |-> fails,
                     header   |-> header,
                     size     |-> size]
             r == resolveAttachment(att)
         IN probe' = [probe EXCEPT
                        !.n = @ + 1,
                        !.attachment = <<att>>,
                        !.resolved = IF r.result # <<>> THEN Append(@, r.result[1]) ELSE @,
                        !.staged = IF r.written THEN @ \cup {LocalPath(att)} ELSE @]
    /\ UNCHANGED <<EngineVars, queue>>

\* a message with its attachments processed; the next message begins
NextMessage ==
    /\ probe.op = "processAttachments"
    /\ probe.n > 0
    /\ probe' = [op |-> "processAttachments", n |-> 0, attachment |-> <<>>,
                 resolved |-> <<>>, staged |-> {}]
    /\ UNCHANGED <<EngineVars, queue>>

NextAttach == ResolveNext \/ NextMessage

SpecAttach == InitAttach /\ [][NextAttach]_vars

\* the attachment resolveAttachment was last called for
LastAttachment == probe.attachment[1]

DeclaredTooLarge(att) ==
    /\ att.header # <<>>
    /\ att.header[1].digits # <<>>
    /\ att.header[1].digits[1] > 20 * 1024 * 1024

InResolved(att) ==
    \E i \in 1..Len(probe.resolved) : probe.resolved[i].localPath = LocalPath(att)

\* C18: after each call of resolveAttachment, an attachment whose declared
\* content-length is above 20 * 1024 * 1024, or whose body is, has no file in
\* the staging directory and no entry in the resolved list; an attachment
\* with declared length and body at or below the cap, whose fileId, signed URL,
\* download and file write went through, has both.
C18_AttachmentSizeCap ==
    probe.attachment # <<>> =>
        /\ (DeclaredTooLarge(LastAttachment) \/ LastAttachment.size > 20 * 1024 * 1024) =>
              /\ LocalPath(LastAttachment) \notin probe.staged
              /\ ~InResolved(LastAttachment)
        /\ (/\ LastAttachment.fails = "none"
            /\ ~DeclaredTooLarge(LastAttachment)
            /\ LastAttachment.size <= 20 * 1024 * 1024) =>
              /\ LocalPath(LastAttachment) \in probe.staged
              /\ InResolved(LastAttachment)

\* the second attachment is exactly at the cap and was staged, after a first
\* one above the cap was dropped
C18_Witness ==
    /\ probe.n = 2
    /\ LastAttachment.size = MAX_ATTACHMENT_BYTES
    /\ LastAttachment.header # <<>>
    /\ LastAttachment.header[1].digits = <<MAX_ATTACHMENT_BYTES>>
    /\ probe.staged = {LocalPath(LastAttachment)}
    /\ Len(probe.resolved) = 1

-----------------------------------------------------------------------------
(* CLI: openclaw clawtell add-route / remove-route on the configuration file *)

\* names are spelled from these pieces: a lower-case letter, an upper-case
\* letter, a digit, a hyphen, an underscore, and the word "constructor"
NamePieces == {"a", "A", "1", "-", "_", "constructor"}

CliNames == {<<x>> : x \in NamePieces} \cup {<<x, y>> : x \in NamePieces, y \in {"a", "-", "_"}}

\* routes the table may hold in the explored runs
MaxRoutes == 2

\* opts.name.toLowerCase()
LowerName(name) == [i \in 1..Len(name) |-> IF name[i] = "A" THEN "a" ELSE name[i]]

\* NAME_RE = /^[a-z0-9][a-z0-9-]*$/
NAME_RE(name) ==
    /\ Len(name) >= 1
    /\ name[1] \in {"a", "1", "constructor"}
    /\ \A i \in 2..Len(name) : name[i] \in {"a", "1", "-", "constructor"}

\* getAgentIds(cfg)
getAgentIds(cfg) == cfg.agents

\* getRouting(cfg): cfg?.channels?.clawtell?.routing ?? {}
getRouting(cfg) == IF cfg.routing = <<>> THEN <<>> ELSE cfg.routing[1]

\* routing[name] is truthy: an own entry, or a property every object inherits
HasRoute(routing, name) ==
    \/ name \in DOMAIN routing
    \/ \E k \in ObjectPrototypeKeys : name = <<k>>

\* routing[name] = entry
PutRoute(routing, name, entry) ==
    [n \in DOMAIN routing \cup {name} |-> IF n = name THEN entry ELSE routing[n]]

\* delete routing[name]
DeleteRoute(routing, name) == [n \in DOMAIN routing \ {name} |-> routing[n]]

\* setRouting(cfg, routing)
setRouting(cfg, routing) == [cfg EXCEPT !.routing = <<routing>>]

\* the configuration file holds the agents and no routing table yet
InitCli ==
    /\ InitEngine
    /\ probe = [op   |-> "cli",
                cfg  |-> [agents |-> {"main", "helper"}, routing |-> <<>>],
                last |-> [cmd |-> "none"]]

\* add-route --name <name> --agent <agentId> [--api-key <key>] [--forward <bool>]
AddRoute ==
    /\ probe.op = "cli"
    /\ \E rawName \in CliNames, agent \in {"main", "ghost"},
          forward \in {"true", "false"}, apiKey \in {""} :
         LET name    == LowerName(rawName)
             cfg     == probe.cfg
             routing == getRouting(cfg)
             entry   == Route(agent, forward # "false", apiKey)
             exits   == ~NAME_RE(name) \/ agent \notin getAgentIds(cfg)
         IN /\ ~exits => name \in DOMAIN routing \/ Cardinality(DOMAIN routing) < MaxRoutes
            /\ probe' = [probe EXCEPT
                           !.cfg = IF exits THEN cfg
                                   ELSE setRouting(cfg, PutRoute(routing, name, entry)),
                           !.last = [cmd |-> "add-route", name |-> rawName,
                                     agent |-> agent, entry |-> entry,
                                     exit |-> IF exits THEN 1 ELSE 0, before |-> cfg]]
    /\ UNCHANGED <<EngineVars, queue>>

\* remove-route --name <name>
RemoveRoute ==
    /\ probe.op = "cli"
    /\ \E rawName \in CliNames :
         LET name    == LowerName(rawName)
             cfg     == probe.cfg
             routing == getRouting(cfg)
             exits   == ~HasRoute(routing, name)
         IN probe' = [probe EXCEPT
                        !.cfg = IF exits THEN cfg
                                ELSE setRouting(cfg, DeleteRoute(routing, name)),
                        !.last = [cmd |-> "remove-route", name |-> rawName,
                                  exit |-> IF exits THEN 1 ELSE 0, before |-> cfg]]
    /\ UNCHANGED <<EngineVars, queue>>

NextCli == AddRoute \/ RemoveRoute

SpecCli == InitCli /\ [][NextCli]_vars

-----------------------------------------------------------------------------
\* C20: whichever loop runs, no pending entry of the queue file has agent
\* "main" (and so none of the dead-lettered entries, which come from the
\* pending ones) and no entry of a retry drain in progress has.
C20_MainNeverQueued ==
    /\ \A i \in 1..Len(queue.pending) : queue.pending[i].agent # "main"
    /\ \A i \in 1..Len(queue.deadLetter) : queue.deadLetter[i].agent # "main"
    /\ \A i \in 1..Len(queued) : queued[i].agent # "main"

\* the streaming loop: the dispatch of m1 to the default consumer has failed
\* and m1 was left with the broker, while the failed m2 sits in the queue
C20_Witness ==
    /\ consecutiveFailures > 0
    /\ "m1" \in hist.mainFailed
    /\ "m1" \in inbox
    /\ ~IsPending(queue, "m1")
    /\ IsPending(queue, "m2")

-----------------------------------------------------------------------------
(* The attempt counter of the pending entries under the account engine *)

\* C21 -- Attempt counter: every pending entry has 1 <= attempts < MAX_ATTEMPTS
\* in every reachable state; a markAttempt of the drain that returns for a
\* pending id leaves the entry with attempts one higher and lastError the given
\* error (in pending, or at the end of dead-letter when the cap is reached);
\* the attempts of an entry that stays pending never decreases.
C21_AttemptCounter ==
    /\ [](\A i \in 1..Len(queue.pending) :
            /\ queue.pending[i].attempts >= 1
            /\ queue.pending[i].attempts < MAX_ATTEMPTS)
    /\ [][(pc = "drainMark" /\ pc' # "poll" /\ IsPending(queue, Qm.id)) =>
            LET before == PendingEntry(queue, Qm.id)
                after  == IF IsPending(queue', Qm.id)
                          THEN PendingEntry(queue', Qm.id)
                          ELSE queue'.deadLetter[Len(queue'.deadLetter)]
            IN  /\ after.id = Qm.id
                /\ after.attempts = before.attempts + 1
                /\ after.lastError = "dispatch failed on retry"
                /\ IsPending(queue', Qm.id) <=> after.attempts < MAX_ATTEMPTS]_vars
    /\ [][\A m \in Msgs :
            IsPending(queue, m) /\ IsPending(queue', m) =>
                PendingEntry(queue', m).attempts >= PendingEntry(queue, m).attempts]_vars

\* a markAttempt of the drain has just raised the pending entry of m2 to the
\* highest count a pending entry can have
C21_Witness ==
    /\ pc = "drain"
    /\ qi = 2
    /\ queued[1].id = "m2"
    /\ queued[1].attempts = MAX_ATTEMPTS - 2
    /\ IsPending(queue, "m2")
    /\ PendingEntry(queue, "m2").attempts = MAX_ATTEMPTS - 1
    /\ PendingEntry(queue, "m2").lastError = "dispatch failed on retry"

-----------------------------------------------------------------------------
(* The dead-letter list at its bound: enqueue, dequeue and markAttempt are    *)
(* called in any order on a queue file that is either new or has had DlStart *)
(* messages dead-lettered one after the other.  The messages are numbered in *)
(* the order of their enqueue.                                               *)

\* dead-letterings behind the queue file at the start
DlStart == 98
\* messages enqueued after the start
MaxDlMessages == 4
\* entries pending at a time
MaxDlPending == 2

\* the entry a markAttempt of the drain has dead-lettered for message id
DeadLetterOf(id) == QueuedMessageOf(id, MAX_ATTEMPTS, "dispatch failed on retry")

InitDeadLetter ==
    /\ InitState
    /\ processedIds = <<>>
    /\ pc = "loop"
    /\ \E n \in {0, DlStart} :
         /\ queue = [pending |-> <<>>, deadLetter |-> [i \in 1..n |-> DeadLetterOf(i)]]
         /\ probe = [op |-> "start", id |-> 0, next |-> n + 1, last |-> n + MaxDlMessages,
                     order |-> [i \in 1..n |-> i]]

\* enqueue of the next message after its first dispatch failed
DlEnqueue ==
    /\ probe.next <= probe.last
    /\ Len(queue.pending) < MaxDlPending
    /\ queue' = enqueue(queue, QueuedMessageOf(probe.next, 1, "initial dispatch failed"))
    /\ probe' = [probe EXCEPT !.op = "enqueue", !.id = probe.next, !.next = @ + 1]
    /\ UNCHANGED EngineVars

\* dequeue of a pending entry after a retry succeeded
DlDequeue ==
    \E i \in 1..Len(queue.pending) :
        /\ queue' = dequeue(queue, queue.pending[i].id)
        /\ probe' = [probe EXCEPT !.op = "dequeue", !.id = queue.pending[i].id]
        /\ UNCHANGED EngineVars

\* markAttempt of a pending entry after a retry failed
DlMarkAttempt ==
    \E i \in 1..Len(queue.pending) :
        LET id == queue.pending[i].id
            error == "dispatch failed on retry"
        IN  /\ queue' = markAttempt(queue, id, error)
            /\ probe' = [probe EXCEPT
                           !.op = "markAttempt", !.id = id,
                           !.order = IF markAttemptResult(queue, id, error) # <<>>
                                     THEN Append(@, id) ELSE @]
            /\ UNCHANGED EngineVars

NextDeadLetter == DlEnqueue \/ DlDequeue \/ DlMarkAttempt

SpecDeadLetter == InitDeadLetter /\ [][NextDeadLetter]_vars

\* C22 -- Dead-letter bound: after any sequence of queue operations the
\* dead-letter list holds at most DEAD_LETTER_CAP (100) entries, and they are
\* the most recently dead-lettered messages, all of them up to the cap, in the
\* order of their dead-lettering; a dead-lettering on a full list discards the
\* oldest entry and appends the new one.
C22_DeadLetterBound ==
    /\ [](Len(queue.deadLetter) <= DEAD_LETTER_CAP)
    /\ [](LET n == Len(probe.order)
               k == Len(queue.deadLetter)
           IN  /\ k = IF n < DEAD_LETTER_CAP THEN n ELSE DEAD_LETTER_CAP
               /\ \A i \in 1..k : queue.deadLetter[i].id = probe.order[n - k + i])
    /\ [](\A i \in 1..Len(queue.deadLetter) : queue.deadLetter[i].attempts = MAX_ATTEMPTS)
    /\ [][(Len(queue.deadLetter) = DEAD_LETTER_CAP /\ probe'.order # probe.order) =>
            /\ Len(queue'.deadLetter) = DEAD_LETTER_CAP
            /\ \A i \in 1..(DEAD_LETTER_CAP - 1) : queue'.deadLetter[i] = queue.deadLetter[i + 1]
            /\ queue'.deadLetter[DEAD_LETTER_CAP].id = probe'.id]_vars

\* 102 messages have been dead-lettered, the last two against the order of
\* their enqueue: the list holds the last 100 and the two oldest are gone
C22_Witness ==
    /\ Len(probe.order) = DEAD_LETTER_CAP + 2
    /\ probe.order[DEAD_LETTER_CAP + 1] > probe.order[DEAD_LETTER_CAP + 2]
    /\ Len(queue.deadLetter) = DEAD_LETTER_CAP
    /\ queue.deadLetter[1].id = 3
    /\ queue.deadLetter[DEAD_LETTER_CAP].id = probe.order[DEAD_LETTER_CAP + 2]

-----------------------------------------------------------------------------
(* The account engine with two messages for sub-agents, so that the retry    *)
(* queue holds more than one entry: m2 for helper, whose route has its own   *)
(* key, and m4 for scout, whose route has none and is not forwarded.         *)

InitRetry ==
    /\ InitEngine
    /\ probe = [op |-> "retry", msgs |-> {"m2", "m4"}]

SpecRetry == InitRetry /\ [][Next]_vars

\* the positions of the retry drain
DrainPcs == {"drain", "drainAck", "drainDequeue", "drainMark", "drainAlert", "drainDlAck"}

\* the entries of the cycle's snapshot that a dispatch was attempted for
Retried(i) == hist.disp[queued[i].id] # "none"

\* C23 as stated -- in every cycle, when the drain hands over to the poll,
\* every entry that was pending at the start of the cycle has had its dispatch
\* attempt.
C23_AsStated ==
    [][(pc # "poll" /\ pc' = "poll") => \A i \in 1..Len(queued) : Retried(i)]_vars

\* C23 (amended) -- the drain works on the entries pending at the start of the
\* cycle, in queue order, and no message is acquired from the broker before it
\* is over; an entry gets at most one dispatch attempt in a cycle, and each
\* entry gets one unless the drain is cut short by the abort signal or by a
\* queue write that throws, after which the poll goes ahead all the same; on
\* success an ack call is issued for the entry and then dequeue is called, on
\* failure markAttempt is called once.
C23_RetryDrain ==
    /\ [][(pc = "loop" /\ pc' = "drain") => queued' = getPending(queue)]_vars
    /\ [](pc \in DrainPcs => messages = <<>>)
    /\ [][(pc = "drain" /\ pc' \in {"drainAck", "drainMark"}) =>
            /\ ~Retried(qi)
            /\ \A j \in 1..(qi - 1) : Retried(j)
            /\ hist'.disp[Qm.id] = IF ok' THEN "ok" ELSE "failed"
            /\ pc' = IF ok' THEN "drainAck" ELSE "drainMark"]_vars
    /\ [][(pc = "drain" /\ pc' = "poll" /\ ~aborted) =>
            \A i \in 1..Len(queued) : Retried(i)]_vars
    /\ [][(pc = "drainAck") =>
            /\ hist.disp[Qm.id] = "ok"
            /\ <<Qm.id, "ok">> \in hist'.ackLog
            /\ queue' = queue
            /\ IsPending(queue, Qm.id)
            /\ pc' = "drainDequeue"]_vars
    /\ [][(pc = "drainDequeue") =>
            \/ queue' = dequeue(queue, Qm.id) /\ pc' = "drain" /\ qi' = qi + 1
            \/ queue' = queue /\ pc' = "poll"]_vars
    /\ [][(pc = "drainMark") =>
            /\ hist.disp[Qm.id] = "failed"
            /\ \/ /\ queue' = markAttempt(queue, Qm.id, "dispatch failed on retry")
                  /\ \/ pc' = "drain" /\ qi' = qi + 1
                     \/ pc' = "drainAlert" /\ qi' = qi
               \/ queue' = queue /\ pc' = "poll"]_vars
    /\ [][(pc' = "drainMark" /\ pc # "drainMark") => pc = "drain"]_vars

\* a drain has been through two pending entries: the retry of m2 succeeded and
\* the entry is gone, the retry of m4 failed and its attempts went up
C23_Witness ==
    /\ pc = "drain"
    /\ Len(queued) = 2
    /\ qi = 3
    /\ queued[1].id = "m2"
    /\ hist.disp["m2"] = "ok"
    /\ hist.disp["m4"] = "failed"
    /\ ~IsPending(queue, "m2")
    /\ PendingEntry(queue, "m4").attempts = queued[2].attempts + 1

-----------------------------------------------------------------------------
(* The delay before a reconnect of sseAccountLoop *)

\* C27 as stated -- the backoff reaches the 10-second cap: when the count of
\* consecutive failures is at its highest, the delay before the reconnect is
\* 10000 ms.
C27_AsStated ==
    (pc = "sseDelay" /\ ~aborted /\ consecutiveFailures = MAX_SSE_FAILURES)
        => sse.delay = RECONNECT_CAP_MS

\* C27 (amended) -- the delay before a reconnect is 2000 ms times the number of
\* consecutive failures, which is min(2000 x failures, 10000) for the counts
\* that occur: the count is at most 3, so the delay is 0 (after a stream that
\* ended without an error), 2000, 4000 or 6000 ms, and stays below the cap.
C27_ReconnectBackoff ==
    /\ (pc = "sseDelay" /\ ~aborted) =>
          /\ sse.delay = RECONNECT_STEP_MS * consecutiveFailures
          /\ sse.delay = ReconnectDelay(consecutiveFailures)
    /\ sse.delay \in {0, 2000, 4000, 6000}
    /\ sse.delay < RECONNECT_CAP_MS
    /\ pc # "sseDelay" => sse.delay = 0

\* the third connection in a row has failed: the loop waits 6000 ms, and its
\* next cycle is a fallback poll
C27_Witness ==
    /\ pc = "sseDelay"
    /\ ~aborted
    /\ consecutiveFailures = MAX_SSE_FAILURES
    /\ sse.delay = 6000

-----------------------------------------------------------------------------
(* The stream of one account, line by line: the read loop of sseAccountLoop  *)
(* with its locals currentEvent and currentData.  The server sends lines in  *)
(* any order; a line reaches the for loop whole, buffer holding the part of  *)
(* a line that a chunk ends with.  probe follows the server's side: the      *)
(* fields of the block of lines since the last blank line, and the calls of  *)
(* processAccountMessages the loop has made and seen return.                 *)

\* lines the server sends in one run
MaxLines == 8
\* connections of one run
MaxConnections == 2

\* the text after "data: ": the JSON of a message, or no JSON at all
Payloads == {[json |-> TRUE, id |-> "m1"], [json |-> TRUE, id |-> "m2"],
             [json |-> FALSE, id |-> ""]}

\* JSON.parse(currentData) as ClawTellMessage; <<>> when it throws
JSONparse(text) == IF text.json THEN <<text.id>> ELSE <<>>

StreamLines ==
    [kind : {"event"}, name : {"message", "timeout"}, data : {<<>>}]
      \cup [kind : {"data"}, name : {""}, data : {<<text>> : text \in Payloads}]
      \cup [kind : {"blank", "comment"}, name : {""}, data : {<<>>}]

EmptyBlock == [event |-> "", data |-> <<>>]

\* the catch around the handling of one event has caught an exception of the
\* given kind ("" when nothing was thrown), and starts tells whether the step
\* calls processAccountMessages (kept where the run records its exceptions)
Caught(p, kind, starts) ==
    IF "caught" \in DOMAIN p
    THEN [p EXCEPT !.caught = IF kind # "" THEN kind ELSE @,
                   !.later = @ \/ (starts /\ p.caught # "none")]
    ELSE p

\* the loop has connected and reads the stream
InitStream ==
    /\ pc = "sseRead"
    /\ InitData
    /\ probe = [op |-> "stream", conn |-> 1, sent |-> 0, last |-> "none",
                block |-> EmptyBlock, timeouts |-> 0, started |-> <<>>, returned |-> <<>>]

\* one line of for (const line of lines): "event: " sets currentEvent, "data: "
\* sets currentData, an empty line with currentData set ends the event: a
\* "message" is parsed and handed to processAccountMessages (a throw of the
\* parse is caught), "timeout", "connected" and "error" are logged, and both
\* locals are reset; every other line is ignored
StreamLine_NoReset ==
    /\ pc = "sseRead"
    /\ probe.sent < MaxLines
    /\ \E line \in StreamLines :
         LET ends == line.kind = "blank" /\ sse.currentData # <<>>
             msg  == IF ends /\ sse.currentEvent = "message"
                     THEN JSONparse(sse.currentData[1]) ELSE <<>>
         IN /\ sse' = IF line.kind = "event" THEN [sse EXCEPT !.currentEvent = line.name]
                      ELSE IF line.kind = "data" THEN [sse EXCEPT !.currentData = line.data]
                      ELSE sse
            /\ IF msg # <<>>
               THEN pc' = "sseEvent" /\ messages' = msg
               ELSE UNCHANGED <<pc, messages>>
            /\ probe' = [probe EXCEPT
                 !.sent = @ + 1,
                 !.last = line.kind,
                 !.block = IF line.kind = "blank" THEN EmptyBlock
                           ELSE IF line.kind = "event" THEN [@ EXCEPT !.event = line.name]
                           ELSE IF line.kind = "data"
                           THEN [@ EXCEPT !.data = Append(@, line.data[1])]
                           ELSE @,
                 !.timeouts = IF line.kind = "blank" /\ probe.block.event = "timeout"
                              THEN @ + 1 ELSE @,
                 !.started = IF msg # <<>> THEN Append(@, msg[1]) ELSE @]
    /\ UNCHANGED <<aborted, inbox, arrived, queue, queued, qi, mi, ackedIds, ok,
                   deadLettered, budget, hist, processedIds, consecutiveFailures,
                   tmpFile, calls>>

StreamLine ==
    /\ pc = "sseRead"
    /\ probe.sent < MaxLines
    /\ \E line \in StreamLines :
         LET ends == line.kind = "blank" /\ sse.currentData # <<>>
             msg  == IF ends /\ sse.currentEvent = "message"
                     THEN JSONparse(sse.currentData[1]) ELSE <<>>
         IN /\ sse' = IF line.kind = "event" THEN [sse EXCEPT !.currentEvent = line.name]
                      ELSE IF line.kind = "data" THEN [sse EXCEPT !.currentData = line.data]
                      ELSE IF ends THEN [sse EXCEPT !.currentEvent = "", !.currentData = <<>>]
                      ELSE sse
            /\ IF msg # <<>>
               THEN pc' = "sseEvent" /\ messages' = msg
               ELSE UNCHANGED <<pc, messages>>
            /\ probe' = Caught([probe EXCEPT
                 !.sent = @ + 1,
                 !.last = line.kind,
                 !.block = IF line.kind = "blank" THEN EmptyBlock
                           ELSE IF line.kind = "event" THEN [@ EXCEPT !.event = line.name]
                           ELSE IF line.kind = "data"
                           THEN [@ EXCEPT !.data = Append(@, line.data[1])]
                           ELSE @,
                 !.timeouts = IF line.kind = "blank" /\ probe.block.event = "timeout"
                              THEN @ + 1 ELSE @,
                 !.started = IF msg # <<>> THEN Append(@, msg[1]) ELSE @],
                 IF ends /\ sse.currentEvent = "message" /\ msg = <<>> THEN "parse" ELSE "",
                 msg # <<>>)
    /\ UNCHANGED <<aborted, inbox, arrived, queue, queued, qi, mi, ackedIds, ok,
                   deadLettered, budget, hist, processedIds, consecutiveFailures,
                   tmpFile, calls>>

\* (a throw of processAccountMessages reaches the catch of the connection)
StreamProcessed_ThrowCloses ==
    /\ pc = "sseEvent"
    /\ messages' = <<>>
    /\ \E threw \in BOOLEAN :
         /\ probe' = Caught([probe EXCEPT !.returned = Append(@, messages[1])],
                            IF threw THEN "process" ELSE "", FALSE)
         /\ pc' = IF threw THEN "sseDelay" ELSE "sseRead"
         /\ consecutiveFailures' = IF threw THEN consecutiveFailures + 1
                                   ELSE consecutiveFailures
         /\ sse' = IF threw THEN [delay        |-> ReconnectDelay(consecutiveFailures'),
                                  currentEvent |-> "",
                                  currentData  |-> <<>>]
                   ELSE sse
    /\ UNCHANGED <<aborted, inbox, arrived, queue, queued, qi, mi, ackedIds, ok,
                   deadLettered, budget, hist, processedIds, tmpFile, calls>>

\* await processAccountMessages(opts, runtime, apiKey, sseUrl, [msg]) returns,
\* or throws into the catch around it; the for loop goes on to the next line
StreamProcessed ==
    /\ pc = "sseEvent"
    /\ pc' = "sseRead"
    /\ messages' = <<>>
    /\ \E threw \in BOOLEAN :
         probe' = Caught([probe EXCEPT !.returned = Append(@, messages[1])],
                         IF threw THEN "process" ELSE "", FALSE)
    /\ UNCHANGED <<aborted, inbox, arrived, queue, queued, qi, mi, ackedIds, ok,
                   deadLettered, budget, hist, OtherState>>

\* const { done } = await reader.read(): the server has closed the stream
\* (done), or the read throws and the catch counts a failure
StreamEnd ==
    /\ pc = "sseRead"
    /\ \E done \in BOOLEAN :
         /\ consecutiveFailures' = IF done THEN consecutiveFailures
                                   ELSE consecutiveFailures + 1
         /\ sse' = [delay        |-> ReconnectDelay(consecutiveFailures'),
                    currentEvent |-> "",
                    currentData  |-> <<>>]
    /\ pc' = "sseDelay"
    /\ probe' = [probe EXCEPT !.last = "end", !.block = EmptyBlock]
    /\ UNCHANGED <<aborted, inbox, arrived, queue, queued, qi, messages, mi, ackedIds, ok,
                   deadLettered, budget, hist, processedIds, tmpFile, calls>>

\* after the delay the next cycle connects again: fetch(streamUrl) succeeds
\* and the read loop starts with new locals
StreamReconnect ==
    /\ pc = "sseDelay"
    /\ probe.conn < MaxConnections
    /\ pc' = "sseRead"
    /\ consecutiveFailures' = 0
    /\ sse' = [sse EXCEPT !.delay = 0]
    /\ probe' = IF "caught" \in DOMAIN probe
                THEN [probe EXCEPT !.conn = @ + 1, !.last = "none", !.timeouts = 0,
                                   !.caught = "none", !.later = FALSE]
                ELSE [probe EXCEPT !.conn = @ + 1, !.last = "none", !.timeouts = 0]
    /\ UNCHANGED <<aborted, inbox, arrived, queue, queued, qi, messages, mi, ackedIds, ok,
                   deadLettered, budget, hist, processedIds, tmpFile, calls>>

NextStream == StreamLine \/ StreamProcessed \/ StreamEnd \/ StreamReconnect

SpecStream == InitStream /\ [][NextStream]_vars

\* the line the loop handles at this step ends a block of the stream
BlockEnds == pc = "sseRead" /\ probe'.sent = probe.sent + 1 /\ probe'.last = "blank"

\* a block "event: message" with one data line that holds the JSON of a message
MessageEvent(block) ==
    /\ block.event = "message"
    /\ Len(block.data) = 1
    /\ JSONparse(block.data[1]) # <<>>

\* C26 as stated -- on an event "timeout" the loop stops reading the
\* connection: the step that handles the end of the event leaves the read loop
\* for the delay before the reconnect.
C26_TimeoutReconnects ==
    [][(pc = "sseRead" /\ probe'.timeouts > probe.timeouts) => pc' = "sseDelay"]_vars

\* C28 -- Stream event handling: the blank line that ends an event "message"
\* (one data line, the JSON of a message) makes the loop call
\* processAccountMessages with that one message, at once and so in stream
\* order; a call is made for nothing else than the end of a block with data
\* whose event field is not another event's name, so not for a keepalive line
\* nor for a "timeout" event; while the call is out no line is handled, and the
\* calls made are the calls returned plus at most the one that is out.
C28_StreamEvents ==
    /\ [][(BlockEnds /\ MessageEvent(probe.block)) =>
            /\ pc' = "sseEvent"
            /\ messages' = <<probe.block.data[1].id>>
            /\ probe'.started = Append(probe.started, probe.block.data[1].id)]_vars
    /\ [][(probe'.started # probe.started) =>
            /\ BlockEnds
            /\ probe.block.data # <<>>
            /\ probe.block.event \in {"message", ""}
            /\ probe'.started =
                 Append(probe.started, probe.block.data[Len(probe.block.data)].id)]_vars
    /\ [](IF pc = "sseEvent"
          THEN Len(messages) = 1 /\ probe.started = Append(probe.returned, messages[1])
          ELSE messages = <<>> /\ probe.started = probe.returned)
    /\ [][(pc = "sseEvent") =>
            /\ pc' = "sseRead"
            /\ probe'.sent = probe.sent
            /\ probe'.started = probe.started
            /\ probe'.returned = probe.started]_vars

\* on one connection the events of m1 and m2 were handled in that order, and
\* an event "timeout" on the same connection led to no call
C28_Witness ==
    /\ probe.op = "stream"
    /\ probe.conn = 1
    /\ probe.sent = 8
    /\ probe.timeouts = 1
    /\ probe.returned = <<"m1", "m2">>
    /\ pc = "sseRead"


-----------------------------------------------------------------------------
(* pollLegacyLoop with a seen-set near its limit: the loop has run for a    *)
(* while and has seen SeenStart messages, all of them read at the broker.   *)

\* ids the loop has seen before the messages of Msgs arrive
SeenStart == 999

SeenBefore(i) == "old" \o ToString(i)

InitSeen ==
    /\ pc = "legacyLoop"
    /\ queue = EmptyQueue
    /\ InitState
    /\ probe = [op |-> "seen"]
    /\ \E n \in {0, SeenStart} : processedIds = [i \in 1..n |-> SeenBefore(i)]

SpecSeen == InitSeen /\ [][NextLegacy]_vars

\* C29 -- Legacy seen-set: a fetched message whose id is in the seen-set is
\* passed over with no dispatch, no markAsRead and no change of the set, and a
\* dispatch starts only for an id that enters the set in that step; the set
\* never holds an id twice nor more than PROCESSED_MAX (1000) ids; an id added
\* to a set of fewer than 1000 is appended, and an id added to a set of 1000
\* leaves exactly PROCESSED_KEEP (500) ids: the 499 most recent of before, in
\* their order, and the new one.
C29_SeenSet ==
    /\ [][(pc = "legacyMsg" /\ mi <= Len(messages) /\ messages[mi] \in Range(processedIds)) =>
            /\ pc' = "legacyMsg"
            /\ mi' = mi + 1
            /\ processedIds' = processedIds
            /\ hist' = hist
            /\ inbox' = inbox]_vars
    /\ [][(pc' \in {"legacyForward", "legacyReject"} /\ pc' # pc) =>
            /\ messages[mi] \notin Range(processedIds)
            /\ messages[mi] \in Range(processedIds')]_vars
    /\ [](Len(processedIds) <= PROCESSED_MAX)
    /\ [](Cardinality(Range(processedIds)) = Len(processedIds))
    /\ [][processedIds' # processedIds =>
            LET n == Len(processedIds)
                id == messages[mi]
            IN  IF n < PROCESSED_MAX
                THEN processedIds' = Append(processedIds, id)
                ELSE /\ Len(processedIds') = PROCESSED_KEEP
                     /\ processedIds'[PROCESSED_KEEP] = id
                     /\ \A i \in 1..(PROCESSED_KEEP - 1) :
                          processedIds'[i] = processedIds[n - PROCESSED_KEEP + 1 + i]]_vars

\* the 1001st id has cut the set down to 500, one more has been added, and a
\* message that is still unread is fetched again and found in the set
C29_Witness ==
    /\ Len(processedIds) = PROCESSED_KEEP + 1
    /\ processedIds[1] \notin Msgs \cup {SeenBefore(1)}
    /\ pc = "legacyMsg"
    /\ mi <= Len(messages)
    /\ messages[mi] \in Range(processedIds)


-----------------------------------------------------------------------------
(* pollLegacyLoop that keeps running: every step of the loop that can be    *)
(* taken is taken in the end (the awaited calls return or throw, the sleep  *)
(* ends).                                                                   *)

SpecLegacyLive == InitLegacy /\ [][NextLegacy]_vars /\ WF_vars(LegacyStep)

\* the dispatch of message id has thrown in the running loop
LegacyFailed(id) == id \in hist.mainFailed \/ hist.fails[id] > 0

\* C30 -- Legacy mark-read: markAsRead is called for a message only after its
\* dispatch returned without error or after the delivery policy rejected it;
\* a message whose dispatch has thrown stays unread at the broker; and, unless
\* the loop is aborted, such a message is dispatched again on a later poll
\* cycle of the same running loop.
C30_LegacyMarkRead ==
    /\ [][\A e \in hist'.ackLog \ hist.ackLog : e[2] \in {"ok", "rejected"}]_vars
    /\ [](\A m \in Msgs : (LegacyFailed(m) /\ m \notin hist.delivered) => m \in inbox)
    /\ \A m \in Msgs :
         (pc = "legacySleep" /\ hist.disp[m] = "failed")
            ~> ((pc = "legacyDispatch" /\ messages[mi] = m) \/ aborted)


-----------------------------------------------------------------------------
(* pollClawTellInbox under cancellation: the host may set the abort signal  *)
(* at any moment of the run, and the steps of the loop that can be taken    *)
(* are taken in the end (every awaited call returns or throws, a timer      *)
(* fires).                                                                  *)

\* the messages the broker offers in a cancelled run
CancelMsgs == {"m2", "m3"}

InitCancel ==
    /\ pc = "start"
    /\ InitData
    /\ \E accountConfig \in AccountConfigs :
          probe = [op |-> "pollClawTellInbox", config |-> accountConfig,
                   msgs |-> CancelMsgs, status |-> <<>>]

\* the abort event is dispatched and the sleep in progress does not hear it
AbortSignal_NoWake ==
    /\ ~aborted
    /\ pc \notin {"failed", "returned"}
    /\ aborted' = TRUE
    /\ UNCHANGED <<pc, inbox, arrived, queue, queued, qi, messages, mi, ackedIds, ok,
                   deadLettered, budget, hist, probe, OtherState>>

\* the host aborts the abortSignal: abortSignal.aborted is true from now on,
\* and the listener of a sleep in progress runs: clearTimeout(timeout);
\* resolve(), so that the loop continues after its await
AbortSignal ==
    /\ ~aborted
    /\ pc \notin {"failed", "returned"}
    /\ aborted' = TRUE
    /\ pc' = CASE pc = "sleep" -> "loop"
               [] pc = "legacySleep" -> "legacyLoop"
               [] pc \in {"sseDelay", "sseFallbackEnd"} -> "sseLoop"
               [] OTHER -> pc
    /\ consecutiveFailures' = IF pc = "sseFallbackEnd" THEN 0 ELSE consecutiveFailures
    /\ sse' = IF pc = "sseDelay" THEN [sse EXCEPT !.delay = 0] ELSE sse
    /\ UNCHANGED <<inbox, arrived, queue, queued, qi, messages, mi, ackedIds, ok,
                   deadLettered, budget, hist, probe, processedIds, tmpFile, calls>>

\* the awaited loop has returned: statusSink({ running: false, ... })
Return ==
    /\ pc = "stopped"
    /\ pc' = "returned"
    /\ probe' = [probe EXCEPT !.status = Append(@, FALSE)]
    /\ UNCHANGED <<aborted, inbox, arrived, queue, queued, qi, messages, mi, ackedIds, ok,
                   deadLettered, budget, hist, OtherState>>

\* what the run does by itself
RunStep == Start \/ AnyLoopStep \/ Return

NextCancel == Arrive \/ SseArrive \/ LegacyArrive \/ AbortSignal \/ RunStep

SpecCancel == InitCancel /\ [][NextCancel]_vars /\ WF_vars(RunStep)

\* positions a cycle of a loop starts its work at
CycleEntries == {"drain", "sseDrain", "legacyFetch"}

\* C31 -- Cancellation: with the abort signal set no loop enters a cycle; the
\* step that sets the signal during an inter-cycle sleep ends that sleep, the
\* loop standing at its while test; a retry drain standing before an entry with
\* the signal set leaves the drain without a dispatch or a queue write; the
\* run reports running:true before its loop starts and running:false when it
\* has returned, and once the signal is set the run does return.
C31_Cancellation ==
    /\ [][(pc' \in CycleEntries /\ pc \notin DrainPcs \cup {"sseDrain", "legacyFetch"}) =>
            (pc \in LoopTops /\ ~aborted)]_vars
    /\ [][(~aborted /\ aborted' /\ pc \in Delays) => pc' \in LoopTops]_vars
    /\ [][(aborted /\ pc \in LoopTops /\ pc' # pc) => pc' = "stopped"]_vars
    /\ [][(aborted /\ pc \in {"drain", "sseDrain"} /\ pc' # pc) =>
            /\ pc' \in {"poll", "sseGate"}
            /\ queue' = queue
            /\ hist' = hist]_vars
    /\ [](pc \notin {"start", "failed"} => (Len(probe.status) >= 1 /\ probe.status[1]))
    /\ [](pc = "returned" <=> probe.status = <<TRUE, FALSE>>)
    /\ (aborted /\ probe.status # <<>>) ~> (pc = "returned")

\* each loop has been cancelled in its sleep, in its retry drain with an
\* entry left, in the middle of a message, and the run has returned
C31_Witness ==
    /\ pc = "returned"
    /\ probe.status = <<TRUE, FALSE>>
    /\ aborted
    /\ queue.pending # <<>>


-----------------------------------------------------------------------------
(* The account loop and the streaming loop with their forwards to the human *)
(* channel recorded.                                                        *)

\* m1 goes to the default consumer with forward: true, m4 to a sub-agent with
\* forward: false
ForwardMsgs == {"m1", "m4"}

InitForward ==
    /\ pc \in {"loop", "sseLoop"}
    /\ InitData
    /\ probe = [op |-> "forward", msgs |-> ForwardMsgs,
                forwards |-> [m \in Msgs |-> 0], outcome |-> "none"]

NextForward == Next \/ NextSse

SpecForward == InitForward /\ [][NextForward]_vars


\* positions of the forward, of the dispatch and of the head of the for loop
\* over the messages, in pollAccountLoop and in processAccountMessages
ForwardPcs == {"forward", "sseFbForward", "sseStForward"}

DispatchPcs == {"dispatch", "sseFbDispatch", "sseStDispatch"}

MsgPcs == {"msg", "sseFbMsg", "sseStMsg"}

DispatchAfter(p) ==
    CASE p = "forward" -> "dispatch"
      [] p = "sseFbForward" -> "sseFbDispatch"
      [] p = "sseStForward" -> "sseStDispatch"
      [] OTHER -> "none"

\* C32 -- Forwarding: forwardToActiveChannel is called only for a message whose
\* resolved route has forward = true; the dispatch of such a message is entered
\* from its forward, and the dispatch of any other message from the head of the
\* loop; whatever the forward does (sent, failed, no delivery context) its step
\* changes nothing but the record of the forward and leads to the dispatch of
\* the same message.
C32_ForwardBestEffort ==
    /\ [](pc \in ForwardPcs => RouteOf(messages[mi]).forward)
    /\ [][probe' # probe => pc \in ForwardPcs]_vars
    /\ [][(pc' \in DispatchPcs /\ pc' # pc) =>
            /\ mi' = mi
            /\ messages' = messages
            /\ IF RouteOf(messages[mi]).forward THEN pc \in ForwardPcs ELSE pc \in MsgPcs]_vars
    /\ [][(pc \in ForwardPcs) =>
            (/\ pc' = DispatchAfter(pc)
             /\ UNCHANGED <<aborted, inbox, arrived, queue, queued, qi, messages, mi,
                            ackedIds, ok, deadLettered, budget, hist, OtherState>>)]_vars

\* m1 was dispatched and delivered after a forward that found no delivery
\* context and sent nothing, and m4 was delivered without a forward
C32_Witness ==
    /\ probe.op = "forward"
    /\ probe.outcome = "noContext"
    /\ probe.forwards["m1"] = 0
    /\ hist.delivered = {"m1", "m4"}


-----------------------------------------------------------------------------
(* dispatchToAgent: the in-process dispatch, and the local sessions API as  *)
(* the fallback for one kind of error.                                      *)

\* err.message (or String(err) for a thrown value that is no Error), as words
ErrorTexts ==
    {<<"Session", "file", "path", "must", "be", "within", "sessions", "directory">>,
     <<"Session", "file", "path", "is", "invalid">>,
     <<"no", "sessions", "directory">>,
     <<"session", "file", "path">>,
     <<"Session", "file">>,
     <<"sessions", "path", "directory">>,
     <<"fetch", "failed">>,
     <<>>}

\* what the in-process dispatch does: finalizeInboundContext and
\* dispatchReplyWithBufferedBlockDispatcher return, or one of them throws
PrimaryOutcomes ==
    {[threw |-> FALSE, isError |-> TRUE, text |-> <<>>]}
      \cup [threw : {TRUE}, isError : BOOLEAN, text : ErrorTexts]

\* what the fetch of /api/sessions/send does: it throws, or resolves with a
\* status, and the body of a refusal can be read or not
FallbackStatuses == {200, 201, 204, 299, 300, 304, 400, 404, 500, 503}

FallbackOutcomes ==
    {[threw |-> TRUE, status |-> 0, textThrows |-> FALSE]}
      \cup [threw : {FALSE}, status : FallbackStatuses, textThrows : BOOLEAN]

\* String.prototype.includes on a text of words
includes(text, part) ==
    \E i \in 1..(Len(text) - Len(part) + 1) : SubSeq(text, i, i + Len(part) - 1) = part

\* Response.ok
RespOk(status) == status >= 200 /\ status <= 299

\* the fallback is taken for every error
dispatchToAgent_FallbackAlways(primary, fallback) ==
    IF ~primary.threw THEN TRUE
    ELSE IF ~fallback.threw /\ RespOk(fallback.status) THEN TRUE
    ELSE FALSE

\* dispatchToAgent: the value it returns.  Everything that throws is inside
\* its try: the in-process dispatch in the outer one, the fetch of the
\* fallback and the read of a refusal's body in the inner one.
dispatchToAgent(primary, fallback) ==
    IF ~primary.threw THEN TRUE
    ELSE LET errMsg == primary.text
         IN IF includes(errMsg, <<"sessions", "directory">>)
                 \/ includes(errMsg, <<"Session", "file", "path">>)
            THEN IF fallback.threw THEN FALSE
                 ELSE IF RespOk(fallback.status) THEN TRUE
                 ELSE FALSE
            ELSE FALSE

InitDispatch ==
    /\ InitEngine
    /\ \E primary \in PrimaryOutcomes, fallback \in FallbackOutcomes :
          probe = [op |-> "dispatchToAgent", primary |-> primary, fallback |-> fallback,
                   result |-> <<>>, fallbackCalled |-> FALSE]

\* const ok = await dispatchToAgent(runtime, opts, apiKey, replyKey, {...})
CallDispatchToAgent ==
    /\ probe.result = <<>>
    /\ probe' = [probe EXCEPT
                   !.result = <<dispatchToAgent(probe.primary, probe.fallback)>>,
                   !.fallbackCalled =
                       /\ probe.primary.threw
                       /\ \/ includes(probe.primary.text, <<"sessions", "directory">>)
                          \/ includes(probe.primary.text, <<"Session", "file", "path">>)]
    /\ UNCHANGED <<EngineVars, queue>>

NextDispatch == CallDispatchToAgent

SpecDispatch == InitDispatch /\ [][NextDispatch]_vars

\* the error names the session file path or the sessions directory
SessionPathError(primary) ==
    /\ primary.threw
    /\ \E i \in 1..Len(primary.text) :
         \/ (i + 1 <= Len(primary.text)
               /\ primary.text[i] = "sessions" /\ primary.text[i + 1] = "directory")
         \/ (i + 2 <= Len(primary.text)
               /\ primary.text[i] = "Session" /\ primary.text[i + 1] = "file"
               /\ primary.text[i + 2] = "path")

\* C33 -- dispatchToAgent returns to its caller in every case, and it returns
\* true exactly when the in-process dispatch did not throw, or it threw an error
\* that names the session file path or the sessions directory and the call of the
\* local sessions API resolved with a status from 200 to 299; for any other
\* error, a refusal of the fallback or a throw of the fallback it returns false.
C33_DispatchResult ==
    probe.result # <<>> =>
        /\ probe.result \in {<<TRUE>>, <<FALSE>>}
        /\ probe.result = <<TRUE>> <=>
             \/ ~probe.primary.threw
             \/ /\ SessionPathError(probe.primary)
                /\ ~probe.fallback.threw
                /\ probe.fallback.status \in 200..299

\* a session-path error, and the sessions API answered 204: true is returned
C33_Witness ==
    /\ probe.op = "dispatchToAgent"
    /\ probe.primary.threw
    /\ probe.primary.text = <<"Session", "file", "path", "is", "invalid">>
    /\ probe.fallback.status = 204
    /\ probe.fallbackCalled
    /\ probe.result = <<TRUE>>


-----------------------------------------------------------------------------
\* every step of resolveAttachment went through for att, and neither its
\* declared length nor its body is above the cap
Resolves(att) ==
    /\ att.fails = "none"
    /\ ~DeclaredTooLarge(att)
    /\ att.size <= 20 * 1024 * 1024

-----------------------------------------------------------------------------
(* The acknowledgment of a batch, in pollAccountLoop and in                 *)
(* processAccountMessages as sseAccountLoop calls it (with the stream       *)
(* server's address, for its fallback poll and for each streamed message).   *)

InitAck ==
    /\ pc \in {"loop", "sseLoop"}
    /\ InitData
    /\ probe = [op |-> "ack", acks |-> <<>>, batch |-> <<>>]

SpecAck == InitAck /\ [][NextForward]_vars

\* the dispositions after which a message's id is pushed to ackedIds
DoneDisp == {"rejected", "ok", "queued"}

\* the step that ends a batch: the loop over its messages is over
AckStep == pc \in MsgPcs /\ mi > Len(messages) /\ pc' # pc

\* what every acknowledgment does: calls are issued only once the last message
\* of the batch has been handled, none when no id is done, and each call
\* carries every done id of the batch exactly once
AckShape ==
    /\ [][(probe'.acks # probe.acks \/ probe'.batch # probe.batch) => AckStep]_vars
    /\ [][AckStep =>
            (/\ probe'.batch = messages
             /\ (probe'.acks = <<>>) <=> (\A i \in 1..Len(messages) : hist.disp[messages[i]] \notin DoneDisp)
             /\ \A k \in 1..Len(probe'.acks) :
                  /\ probe'.acks[k].ids = SelectSeq(messages, LAMBDA m : hist.disp[m] \in DoneDisp)
                  /\ Cardinality(Range(probe'.acks[k].ids)) = Len(probe'.acks[k].ids))]_vars

\* C35 (as first stated) -- Batch acknowledgment: the done ids of a batch are
\* acknowledged in a single call issued after its last message has been
\* processed, each id once; no call is made when no id is done, and after a
\* call that failed no further acknowledgment of those ids is attempted within
\* the cycle.
C35_SingleAckCall ==
    /\ AckShape
    /\ [](Len(probe.acks) <= 1)

\* C35 -- Batch acknowledgment: the done ids of a batch are acknowledged
\* together after its last message has been processed, each id once, and no
\* call is made when no id is done.  In the polling loop this is a single call
\* and a failed call is not repeated within the cycle; in the streaming loop a
\* first call (to the stream server) that fails is followed by exactly one
\* further call with the same ids (to the main API), and by none otherwise.
C35_BatchAck ==
    /\ AckShape
    /\ [][(AckStep /\ pc = "msg") => (Len(probe'.acks) <= 1)]_vars
    /\ [](/\ Len(probe.acks) <= 2
          /\ Len(probe.acks) = 2 => ~probe.acks[1].ok /\ probe.acks[2].ids = probe.acks[1].ids)
    /\ [][(AckStep /\ pc # "msg" /\ probe'.acks # <<>>) =>
            (Len(probe'.acks) = 2 <=> ~probe'.acks[1].ok)]_vars

\* the fallback poll of the streaming loop has handled a batch of three with
\* two done ids, the first call failed and the second was issued
C35_Witness ==
    /\ pc = "sseFallbackEnd"
    /\ Len(probe.batch) = 3
    /\ Len(probe.acks) = 2
    /\ Len(probe.acks[1].ids) = 2
    /\ ~probe.acks[1].ok


-----------------------------------------------------------------------------
(* The queue API called by a single loop, one call after the other, on a    *)
(* store that starts empty.                                                 *)

\* C36 -- After any sequence of enqueue, dequeue and markAttempt calls by a
\* single loop starting from an empty store, no two pending entries share an
\* id; and a dequeue or markAttempt on an id that is not pending leaves the
\* pending and the dead-letter contents unchanged (markAttempt returns null).
C36_QueueCallsKeepIdsUnique ==
    /\ [](\A i, j \in 1..Len(queue.pending) :
            queue.pending[i].id = queue.pending[j].id => i = j)
    /\ [][(probe'.op \in {"dequeue", "markAttempt"} /\ ~IsPending(queue, probe'.id)) =>
            (/\ queue'.pending = queue.pending
             /\ queue'.deadLetter = queue.deadLetter
             /\ probe'.op = "markAttempt" => probe'.result = <<>>)]_vars

\* markAttempt was called for q1, which had been dead-lettered and is no
\* longer pending, while q2 was pending
C36_Witness ==
    /\ probe.op = "markAttempt"
    /\ probe.id = "q1"
    /\ ~probe.wasPending
    /\ probe.result = <<>>
    /\ Len(queue.pending) = 1
    /\ queue.pending[1].id = "q2"
    /\ Len(queue.deadLetter) = 1
    /\ queue.deadLetter[1].id = "q1"


-----------------------------------------------------------------------------
(* The content a message is dispatched with: at its first dispatch in       *)
(* processAccountMessages / pollAccountLoop, and at the retries of the      *)
(* drain.  A text is the sequence of its parts, each a sequence of strings. *)

\* msg.subject (<<>> when the message has none)
Subjects == {<<>>, <<"hello">>}

\* msg.body
Bodies == {"hi", ""}

ResolvedAttachment(fileId) == [filename |-> "file", localPath |-> <<fileId, "file">>]

\* the lists processAttachments may return as resolved for a message with up
\* to two attachments
ResolvedLists ==
    {<<>>, <<ResolvedAttachment("f1")>>, <<ResolvedAttachment("f2")>>,
     <<ResolvedAttachment("f1"), ResolvedAttachment("f2")>>}

\* const messageContent = msg.subject ? `... from tell/${senderName} to: ${toName}
\*   Subject: ${msg.subject} ${msg.body}` : `... from tell/${senderName} to: ${toName} ${msg.body}`
messageContent(senderName, toName, subject, body) ==
    <<<<"ClawTell Delivery">>, <<"from", "tell/", senderName.base>>, <<"to:", toName>>>>
        \o (IF subject # <<>> THEN <<<<"Subject:", subject[1]>>>> ELSE <<>>)
        \o <<<<body>>>>

\* processAttachments: textSuffix, a heading and one line per resolved
\* attachment with its local path, "" when nothing was resolved
textSuffix(resolved) ==
    IF resolved = <<>> THEN <<>>
    ELSE <<<<"**Attachments:**">>>>
            \o [i \in 1..Len(resolved) |-> <<resolved[i].filename>> \o resolved[i].localPath]

\* enqueue({ ..., content: messageContent, ... })
QueuedContent(content, attachmentSuffix) == content

InitContent ==
    /\ InitEngine
    /\ \E toName \in {"alice", "helper-bot"}, subject \in Subjects, body \in Bodies,
          resolved \in ResolvedLists :
         probe = [op       |-> "content",
                  msgId    |-> "m1",
                  from     |-> SenderName("m1"),
                  toName   |-> toName,
                  subject  |-> subject,
                  body     |-> body,
                  resolved |-> resolved,
                  stage    |-> "received",
                  first    |-> <<>>,
                  retry    |-> <<>>]

\* const agentMessageContent = messageContent + attachmentSuffix; the first
\* dispatch with it, and the enqueue after a failed dispatch to a sub-agent
ContentDispatch ==
    /\ probe.op = "content" /\ probe.stage = "received"
    /\ LET route   == resolveRoute(probe.toName, Routing)
           content == messageContent(probe.from, probe.toName, probe.subject, probe.body)
           attachmentSuffix    == textSuffix(probe.resolved)
           agentMessageContent == content \o attachmentSuffix
           qm == QueuedMessageFor(probe.msgId, probe.from, probe.toName, route, AccountApiKey)
                    @@ [content |-> QueuedContent(content, attachmentSuffix)]
       IN \E result \in BOOLEAN :
            /\ probe' = [probe EXCEPT
                           !.first = <<agentMessageContent>>,
                           !.stage = IF ~result /\ AgentOf(route) # "main"
                                     THEN "queued" ELSE "done"]
            /\ queue' = IF ~result /\ AgentOf(route) # "main" THEN enqueue(queue, qm)
                        ELSE queue
    /\ UNCHANGED EngineVars

\* the retry of the drain: dispatchToAgent(..., { ..., messageContent: qm.content, ... }),
\* then dequeue on success and markAttempt on failure
ContentRetry ==
    /\ probe.op = "content" /\ probe.stage = "queued"
    /\ LET qm == getPending(queue)[1]
       IN \E result \in BOOLEAN :
            /\ queue' = IF result THEN dequeue(queue, qm.id)
                        ELSE markAttempt(queue, qm.id, "dispatch failed on retry")
            /\ probe' = [probe EXCEPT
                           !.retry = <<qm.content>>,
                           !.stage = IF getPending(queue') = <<>> THEN "done" ELSE @]
    /\ UNCHANGED EngineVars

NextContent == ContentDispatch \/ ContentRetry

SpecContent == InitContent /\ [][NextContent]_vars

\* C37 -- The content dispatched to the consumer when a queued message is
\* retried is identical to the content dispatched at its initial attempt,
\* including the attachment references appended for the consumer.
C37_RetryContent ==
    (probe.op = "content" /\ probe.retry # <<>>) => probe.retry = probe.first

\* a message without resolved attachments is retried with the content of its
\* first dispatch
C37_NoAttachments ==
    (probe.op = "content" /\ probe.retry # <<>> /\ probe.resolved = <<>>) =>
        probe.retry = probe.first

\* a message with two resolved attachments was retried
C37_Retried ==
    /\ probe.op = "content"
    /\ probe.retry # <<>>
    /\ Len(probe.resolved) = 2


-----------------------------------------------------------------------------
(* Sends to the human channel per message, over the cycles of a run. *)

\* C38 -- Each message is forwarded to the human channel at most once, no
\* matter how many times its dispatch is attempted, whether through local
\* queue retries or through broker redelivery after an un-acknowledged
\* default-consumer failure.
C38_ForwardedAtMostOnce ==
    probe.op = "forward" => \A m \in Msgs : probe.forwards[m] <= 1


-----------------------------------------------------------------------------
(* The dead-letter alert of the drain. *)

\* the alert is sent when, and only when, markAttempt has returned an entry
AlertOnDeadLetter ==
    /\ [][hist'.alerts # hist.alerts => (pc = "drainAlert" /\ deadLettered # <<>>)]_vars
    /\ [](pc = "drainAlert" => deadLettered # <<>>)
    /\ [][(pc = "drainMark" /\ queue'.deadLetter # queue.deadLetter) =>
            (pc' = "drainAlert" /\ deadLettered' # <<>>)]_vars

\* C39 -- A dead-letter alert is emitted exactly when markAttempt returns a
\* dead-lettered entry, and the attempt count and last error shown in the
\* alert equal the values recorded on that dead-lettered entry (attempts = 10
\* and the error passed to the final markAttempt).
C39_DeadLetterAlert ==
    /\ AlertOnDeadLetter
    /\ [](pc = "drainDlAck" =>
            /\ deadLettered[1].attempts = MAX_ATTEMPTS
            /\ deadLettered[1].lastError = "dispatch failed on retry"
            /\ [id        |-> deadLettered[1].id,
                attempts  |-> deadLettered[1].attempts,
                lastError |-> deadLettered[1].lastError] \in hist.alerts)

\* what the alert shows instead: the values of the entry as getPending
\* returned it before the last retry, one attempt short
C39_AlertShowsSnapshot ==
    /\ AlertOnDeadLetter
    /\ [](pc = "drainDlAck" =>
            /\ deadLettered[1].attempts = MAX_ATTEMPTS
            /\ deadLettered[1].lastError = "dispatch failed on retry"
            /\ [id        |-> queued[qi].id,
                attempts  |-> MAX_ATTEMPTS - 1,
                lastError |-> queued[qi].lastError] \in hist.alerts)

\* the alert for m2 has been sent
C39_Alerted ==
    /\ pc = "drainDlAck"
    /\ queued[qi].id = "m2"
    /\ \E a \in hist.alerts : a.id = "m2"


-----------------------------------------------------------------------------
(* Exceptions while one streamed event is handled: the try/catch around     *)
(* JSON.parse and processAccountMessages inside the read loop, and the      *)
(* catch of the connection around the whole loop.                           *)

InitStreamCaught ==
    /\ pc = "sseRead"
    /\ InitData
    /\ probe = [op |-> "stream", conn |-> 1, sent |-> 0, last |-> "none",
                block |-> EmptyBlock, timeouts |-> 0, started |-> <<>>, returned |-> <<>>,
                caught |-> "none", later |-> FALSE]

SpecStreamCaught == InitStreamCaught /\ [][NextStream]_vars

\* the line handled at this step ends an event "message" whose data is no JSON
ParseFails ==
    /\ pc = "sseRead"
    /\ probe'.sent = probe.sent + 1
    /\ probe'.last = "blank"
    /\ sse.currentEvent = "message"
    /\ sse.currentData # <<>>
    /\ ~sse.currentData[1].json

\* C40 -- In streaming mode an exception while one received message is handled
\* (the payload does not parse, or processAccountMessages throws) does not
\* close the stream, does not increment the consecutive-failure counter, and
\* the read loop goes on with the lines that follow on the same connection;
\* the counter is incremented only where reading the connection fails.
C40_PerEventCatch ==
    /\ [][(ParseFails \/ pc = "sseEvent") =>
            (/\ pc' = "sseRead"
             /\ consecutiveFailures' = consecutiveFailures
             /\ probe'.conn = probe.conn
             /\ sse'.currentEvent = ""
             /\ sse'.currentData = <<>>)]_vars
    /\ [][ParseFails => (messages' = <<>> /\ probe'.started = probe.started)]_vars
    /\ [][(consecutiveFailures' > consecutiveFailures) =>
            (pc = "sseRead" /\ pc' = "sseDelay" /\ probe'.last = "end")]_vars
    /\ [](probe.caught # "none" => (consecutiveFailures = 0 \/ pc = "sseDelay"))

\* on one connection a payload failed to parse or a call threw, a later event
\* of the same connection was handed to processAccountMessages and the call
\* returned, and no failure has been counted
C40_Witness ==
    /\ pc = "sseRead"
    /\ probe.conn = 1
    /\ probe.caught = "process"
    /\ probe.later
    /\ Len(probe.returned) = 2
    /\ consecutiveFailures = 0


\* the same for a payload that did not parse
C40_ParseCaught ==
    /\ pc = "sseRead"
    /\ probe.conn = 1
    /\ probe.caught = "parse"
    /\ probe.later
    /\ Len(probe.returned) = 1
    /\ consecutiveFailures = 0

\* inside processAccountMessages as the read loop calls it: whatever the
\* forward, the dispatch, the enqueue and the ack of the message do, the loop
\* is back at reading the same stream with the counter as it was
C40_InsideProcessing ==
    [][(pc \in {"sseStMsg", "sseStForward", "sseStDispatch"}) =>
         (/\ pc' \in {"sseStMsg", "sseStForward", "sseStDispatch", "sseStream"}
          /\ consecutiveFailures' = consecutiveFailures)]_vars

====
